---- MODULE Spec2Model ----
(***************************************************************************)
(* The whiteboard editor's interaction state machine                      *)
(* (src/src/CanvasWhiteboard/useInteractions.ts, index.tsx) over the      *)
(* element model and geometry kernel (element.ts = src/unnamed/part_004   *)
(* lines 1-490, geometry.ts = src/src/CanvasWhiteboard/useDrawing.ts      *)
(* lines 480-612).                                                        *)
(*                                                                        *)
(* Numbers.  World and screen coordinates are integers.  Every quantity   *)
(* the code obtains by halving (centres, handle positions, a point        *)
(* rotated about a centre) is kept doubled, so no division is rounded.    *)
(* Three operations of the code leave the integers: Math.hypot of a drawn *)
(* circle's radius, Math.atan2 of a rotation, and the extremum of a       *)
(* curve's bounding box.  The pointer events that drive them are drawn    *)
(* from the positions where the result is exact (an integer radius, a     *)
(* rotation that is a multiple of 90 degrees, a half-integer centre).     *)
(***************************************************************************)
EXTENDS Integers, Sequences, FiniteSets, TLC

VARIABLES
    elements,           \* index.tsx:48   the authoritative collection
    selectedTool,       \* index.tsx:58
    selectedElements,   \* index.tsx:59   copies being transformed
    editingElement,     \* index.tsx:60
    labelText,          \* index.tsx:63
    drawingAngleInfo,   \* index.tsx:70   (the angle itself is not modelled)
    isSpacePressed,     \* index.tsx:77
    isCtrlPressed,      \* index.tsx:78
    viewTransform,      \* index.tsx:41
    action,             \* useInteractions.ts:63
    selectionRect,      \* useInteractions.ts:66
    resizeHandle,       \* useInteractions.ts:71
    startPos,           \* useInteractions.ts:72
    dragOffset,         \* useInteractions.ts:73
    activePointers,     \* useInteractions.ts:76  insertion-ordered Map
    panStartRef,        \* useInteractions.ts:77
    rotationCenterRef,  \* useInteractions.ts:81  (doubled coordinates)
    initialRotationRef, \* useInteractions.ts:82
    nextId,             \* id.ts: the next id generateId returns
    lastEvent,          \* history: the event that produced this state, the ids removed
    session,            \* which stored collection was loaded, which inputs follow
    gestures,           \* the number of pointer-down events so far
    probe               \* a call of a kernel function on its own: arguments and result

vars == <<elements, selectedTool, selectedElements, editingElement, labelText,
          drawingAngleInfo, isSpacePressed, isCtrlPressed, viewTransform,
          action, selectionRect, resizeHandle, startPos, dragOffset,
          activePointers, panStartRef, rotationCenterRef, initialRotationRef,
          nextId, lastEvent, session, gestures, probe>>

----------------------------------------------------------------------------
(* Bounds of the model *)

\* generateId hands out the ids FirstFreshId .. MaxId; an event that needs an id is
\* not taken once they are used up
MaxId == 4
\* every coordinate an event produces stays within -CoordMax .. CoordMax
CoordMax == 200
\* a pencil stroke being drawn holds at most MaxPoints points
MaxPoints == 3
\* the viewport offset stays within -MaxPan .. MaxPan
MaxPan == 40
\* a session holds at most MaxGestures pointer-down events
MaxGestures == 2
\* an element's rotation stays within -MaxRotation .. MaxRotation degrees
MaxRotation == 270
\* a path handed to simplifyPath on its own has at most MaxPathLen points, on the
\* grid 0..GridMax by 0..1 with its first point on the x axis, and a tolerance
\* of 0..MaxEpsilon
MaxPathLen == 4
GridMax == 2
MaxEpsilon == 1
\* a collection handed to getElementAtPosition on its own has at most MaxStack
\* elements
MaxStack == 3
\* a marquee handed to isElementIntersectingRect on its own has the x of its
\* corner and its sides on the multiples of 20, the y of its corner on the
\* multiples of 40, up to 20 * MaxCell
MaxCell == 6
\* an element handed to moveElement on its own is moved by multiples of 10 up to
\* 10 * MaxShift either way on each axis
MaxShift == 2

(* Program constants *)

COPY_HANDLE_OFFSET == -30
ROTATION_HANDLE_OFFSET == -55
ICON_HANDLE_SIZE == 24
\* constants.ts is not among the sources: "a small fixed size" (spec 4.2)
HANDLE_SIZE == 8
LINE_HIT_THRESHOLD == 5
ARROWHEAD_HIT == 10
COPY_OFFSET == 15
PLACING_THRESHOLD == 5
TEXT_FONT_SIZE == 24
MIN_FONT_SIZE == 8
PENCIL_EPSILON == 1
CURVE_SAMPLES == 10

----------------------------------------------------------------------------
(* Values *)

Null == [null |-> TRUE]

Pt(px, py) == [x |-> px, y |-> py]

Abs(n) == IF n < 0 THEN -n ELSE n
Min(a, b) == IF a < b THEN a ELSE b
Max(a, b) == IF a > b THEN a ELSE b

\* A JavaScript number used as a condition: undefined and 0 are falsy
Truthy(present, n) == present /\ n # 0

\* An element: one record shape for the seven variants of types.ts; an optional
\* field that is absent has its has* flag FALSE and the value 0 / "" / <<>>
BaseElement(i, t, px, py) ==
    [id |-> i, type |-> t, x |-> px, y |-> py,
     width |-> 0, height |-> 0, radius |-> 0, x2 |-> 0, y2 |-> 0,
     hasCp |-> FALSE, cp1x |-> 0, cp1y |-> 0,
     hasCurveHandle |-> FALSE, curveHandleX |-> 0, curveHandleY |-> 0,
     hasRotation |-> FALSE, rotation |-> 0,
     hasLabel |-> FALSE, label |-> "",
     points |-> <<>>, text |-> "", fontSize |-> 0]

RectEl(i, t, px, py, w, h) ==
    [BaseElement(i, t, px, py) EXCEPT !.width = w, !.height = h]
CircleEl(i, px, py, r) ==
    [BaseElement(i, "circle", px, py) EXCEPT !.radius = r]
LineEl(i, t, px, py, qx, qy) ==
    [BaseElement(i, t, px, py) EXCEPT !.x2 = qx, !.y2 = qy]
PencilEl(i, pts) ==
    [BaseElement(i, "pencil", pts[1].x, pts[1].y) EXCEPT !.points = pts]
TextEl(i, px, py, s, fs) ==
    [BaseElement(i, "text", px, py) EXCEPT !.text = s, !.fontSize = fs]

IsLineType(el) == el.type \in {"line", "arrow"}
IsBoxType(el) == el.type \in {"rectangle", "diamond"}

Ids(s) == {s[i].id : i \in 1..Len(s)}

----------------------------------------------------------------------------
(* Geometry kernel: geometry.ts *)

\* normalizeRect, had it returned the rectangle as given
normalizeRect_asGiven(rect) == rect

\* normalizeRect, had it left the origin where it was
normalizeRect_keepsOrigin(rect) ==
    [rect EXCEPT !.width = Abs(rect.width), !.height = Abs(rect.height)]

\* { ...rect, x, y, width, height }
normalizeRect(rect) ==
    [rect EXCEPT !.x = IF rect.width < 0 THEN rect.x + rect.width ELSE rect.x,
                 !.y = IF rect.height < 0 THEN rect.y + rect.height ELSE rect.y,
                 !.width = Abs(rect.width),
                 !.height = Abs(rect.height)]

\* cos and sin of an angle given in degrees, a multiple of 90
Quarter(deg) == ((deg % 360) + 360) % 360
Cos90(deg) == CASE Quarter(deg) = 0 -> 1 [] Quarter(deg) = 180 -> -1 [] OTHER -> 0
Sin90(deg) == CASE Quarter(deg) = 90 -> 1 [] Quarter(deg) = 270 -> -1 [] OTHER -> 0

\* rotatePoint on doubled coordinates: point2 = 2*point, origin2 = 2*origin
rotatePoint(point2, origin2, deg) ==
    CHOOSE rotated \in
        { Pt((point2.x - o.x) * Cos90(deg) - (point2.y - o.y) * Sin90(deg) + o.x,
             (point2.x - o.x) * Sin90(deg) + (point2.y - o.y) * Cos90(deg) + o.y) :
          o \in {origin2} } : TRUE

\* a * b < c * d for naturals a, b, c, d without forming the products:
\* a/c against d/b by continued fractions
RECURSIVE FracLess(_, _, _, _)
FracLess(a, c, d, b) ==
    \* a / c < d / b, with c > 0 and b > 0
    LET qa == a \div c
        qd == d \div b
        ra == a % c
        rd == d % b
    IN  IF qa # qd THEN qa < qd
        ELSE IF rd = 0 THEN FALSE
        ELSE IF ra = 0 THEN TRUE
        ELSE FracLess(b, rd, c, ra)

MulLess(a, b, c, d) ==
    IF c = 0 \/ d = 0 THEN FALSE
    ELSE IF a = 0 \/ b = 0 THEN TRUE
    ELSE FracLess(a, c, d, b)

\* Math.hypot(dx, dy) < limit, all three scaled alike
HypotLess(dx, dy, limit) ==
    /\ Abs(dx) < limit
    /\ Abs(dy) < limit
    /\ dx * dx + dy * dy < limit * limit

\* distanceToLineSegment(p, a, b) < limit
distanceToLineSegmentLess(p, a, b, limit) ==
    LET l2 == (a.x - b.x) * (a.x - b.x) + (a.y - b.y) * (a.y - b.y)
        dot == (p.x - a.x) * (b.x - a.x) + (p.y - a.y) * (b.y - a.y)
        pa2 == (p.x - a.x) * (p.x - a.x) + (p.y - a.y) * (p.y - a.y)
    IN  IF l2 = 0 THEN HypotLess(p.x - a.x, p.y - a.y, limit)
        ELSE IF dot <= 0 THEN HypotLess(p.x - a.x, p.y - a.y, limit)
        ELSE IF dot >= l2 THEN HypotLess(p.x - b.x, p.y - b.y, limit)
        ELSE \* t in (0,1): dist^2 = |p-a|^2 - dot^2 / l2
             \/ pa2 < limit * limit
             \/ MulLess(pa2 - limit * limit, l2, dot, dot)

\* One axis of getQuadraticCurveBounds, doubled: the extremum lies at
\* t = (p0 - p1) / (p0 - 2 p1 + p2) when 0 < t < 1, with value p1 + a b / (a + b)
\* for a = p0 - p1, b = p2 - p1
CurveHasExtremum(p0, p1, p2) ==
    LET a == p0 - p1
        d == p0 - 2 * p1 + p2
    IN  \/ d > 0 /\ 0 < a /\ a < d
        \/ d < 0 /\ d < a /\ a < 0

CurveExtremum2(p0, p1, p2) ==
    LET a == p0 - p1
        b == p2 - p1
        d == a + b
        num == IF d < 0 THEN -(2 * a * b) ELSE 2 * a * b
        den == Abs(d)
    IN  2 * p1 + (IF num < 0 THEN -((-num) \div den) ELSE num \div den)

CurveAxisExact(p0, p1, p2) ==
    CurveHasExtremum(p0, p1, p2) =>
        LET a == p0 - p1
            b == p2 - p1
        IN  (Abs(2 * a * b) % Abs(a + b)) = 0

\* getQuadraticCurveBounds, doubled: [minX, minY, maxX, maxY]
getQuadraticCurveBounds(p0, p1, p2) ==
    LET ex == CurveExtremum2(p0.x, p1.x, p2.x)
        ey == CurveExtremum2(p0.y, p1.y, p2.y)
        hx == CurveHasExtremum(p0.x, p1.x, p2.x)
        hy == CurveHasExtremum(p0.y, p1.y, p2.y)
        lox == 2 * Min(p0.x, p2.x)
        hix == 2 * Max(p0.x, p2.x)
        loy == 2 * Min(p0.y, p2.y)
        hiy == 2 * Max(p0.y, p2.y)
    IN  [minX |-> IF hx THEN Min(lox, ex) ELSE lox,
         maxX |-> IF hx THEN Max(hix, ex) ELSE hix,
         minY |-> IF hy THEN Min(loy, ey) ELSE loy,
         maxY |-> IF hy THEN Max(hiy, ey) ELSE hiy]

\* getPointOnQuadraticCurve(i / CURVE_SAMPLES, ...), scaled by CURVE_SAMPLES^2
getPointOnQuadraticCurve(i, p0, p1, p2) ==
    LET s == CURVE_SAMPLES - i
    IN  Pt(s * s * p0.x + 2 * s * i * p1.x + i * i * p2.x,
           s * s * p0.y + 2 * s * i * p1.y + i * i * p2.y)

----------------------------------------------------------------------------
(* Element model: element.ts *)

\* measureText: the canvas text metrics are the browser's; here every glyph of a
\* single-line text advances by the font size
measureText(text, fontSize) ==
    [width |-> Len(text) * fontSize, height |-> fontSize]

SetMin(S) == CHOOSE m \in S : \A n \in S : m <= n
SetMax(S) == CHOOSE m \in S : \A n \in S : m >= n

getPencilElementBounds(el) ==
    IF Len(el.points) = 0 THEN [minX |-> 0, minY |-> 0, maxX |-> 0, maxY |-> 0]
    ELSE LET xs == {el.points[i].x : i \in 1..Len(el.points)}
             ys == {el.points[i].y : i \in 1..Len(el.points)}
         IN  [minX |-> SetMin(xs), minY |-> SetMin(ys),
              maxX |-> SetMax(xs), maxY |-> SetMax(ys)]

\* the code's test for a curved line: if (el.cp1x && el.cp1y)
IsCurved(el) == Truthy(el.hasCp, el.cp1x) /\ Truthy(el.hasCp, el.cp1y)

CurveBoundsOf(el) ==
    getQuadraticCurveBounds(Pt(el.x, el.y), Pt(el.cp1x, el.cp1y), Pt(el.x2, el.y2))

\* getElementCenter, doubled
getElementCenter(el) ==
    CASE IsBoxType(el) ->
            LET n == normalizeRect(el)
            IN  Pt(2 * n.x + n.width, 2 * n.y + n.height)
      [] IsLineType(el) ->
            IF IsCurved(el)
            THEN LET b == CurveBoundsOf(el)
                 IN  Pt((b.minX + b.maxX) \div 2, (b.minY + b.maxY) \div 2)
            ELSE Pt(el.x + el.x2, el.y + el.y2)
      [] el.type = "circle" -> Pt(2 * el.x, 2 * el.y)
      [] el.type = "text" ->
            LET m == measureText(el.text, el.fontSize)
            IN  Pt(2 * el.x + m.width, 2 * el.y + m.height)
      [] el.type = "pencil" ->
            LET b == getPencilElementBounds(el)
            IN  Pt(b.minX + b.maxX, b.minY + b.maxY)
      [] OTHER -> Pt(2 * el.x, 2 * el.y)

\* the doubled centre and handle positions of a curved line are integers
CurveExact(el) ==
    (IsLineType(el) /\ IsCurved(el)) =>
        /\ CurveAxisExact(el.x, el.cp1x, el.x2)
        /\ CurveAxisExact(el.y, el.cp1y, el.y2)
        /\ LET b == CurveBoundsOf(el)
           IN  (b.minX + b.maxX) % 2 = 0 /\ (b.minY + b.maxY) % 2 = 0

Handle(t, hx, hy) == [type |-> t, x |-> hx, y |-> hy]

\* getHandles, doubled positions, in the order the code returns them
getHandles(el) ==
    CASE IsBoxType(el) ->
            LET n == normalizeRect(el)
            IN  << Handle("top-left", 2 * n.x, 2 * n.y),
                   Handle("top-right", 2 * (n.x + n.width), 2 * n.y),
                   Handle("bottom-left", 2 * n.x, 2 * (n.y + el.height)),
                   Handle("bottom-right", 2 * (n.x + n.width), 2 * (n.y + el.height)),
                   Handle("copy", 2 * n.x + n.width, 2 * (n.y + COPY_HANDLE_OFFSET)),
                   Handle("rotation", 2 * n.x + n.width,
                          2 * (n.y + ROTATION_HANDLE_OFFSET)) >>
      [] IsLineType(el) ->
            LET b == CurveBoundsOf(el)
                cx == IF IsCurved(el) THEN (b.minX + b.maxX) \div 2 ELSE el.x + el.x2
                cy == IF IsCurved(el) THEN b.minY ELSE el.y + el.y2
            IN  << Handle("start", 2 * el.x, 2 * el.y),
                   Handle("end", 2 * el.x2, 2 * el.y2),
                   Handle("copy", cx, cy + 2 * COPY_HANDLE_OFFSET),
                   Handle("rotation", cx, cy + 2 * ROTATION_HANDLE_OFFSET),
                   IF Truthy(el.hasCurveHandle, el.curveHandleX)
                      /\ Truthy(el.hasCurveHandle, el.curveHandleY)
                   THEN Handle("curve", 2 * el.curveHandleX, 2 * el.curveHandleY)
                   ELSE Handle("curve", el.x + el.x2, el.y + el.y2) >>
      [] el.type = "text" ->
            LET m == measureText(el.text, el.fontSize)
            IN  << Handle("bottom-right", 2 * (el.x + m.width), 2 * (el.y + m.height)),
                   Handle("copy", 2 * el.x + m.width, 2 * (el.y + COPY_HANDLE_OFFSET)),
                   Handle("rotation", 2 * el.x + m.width,
                          2 * (el.y + ROTATION_HANDLE_OFFSET)) >>
      [] el.type = "circle" ->
            << Handle("radius", 2 * (el.x + el.radius), 2 * el.y),
               Handle("copy", 2 * el.x, 2 * (el.y - el.radius + COPY_HANDLE_OFFSET)),
               Handle("rotation", 2 * el.x,
                      2 * (el.y - el.radius + ROTATION_HANDLE_OFFSET)) >>
      [] el.type = "pencil" ->
            LET b == getPencilElementBounds(el)
            IN  << Handle("copy", b.minX + b.maxX, 2 * (b.minY + COPY_HANDLE_OFFSET)),
                   Handle("rotation", b.minX + b.maxX,
                          2 * (b.minY + ROTATION_HANDLE_OFFSET)) >>
      [] OTHER -> << >>

\* the point mapped into the element's local (unrotated) space, doubled:
\* el.rotation ? rotatePoint(pos, center, -el.rotation * PI / 180) : pos
LocalPos(el, pos) ==
    IF Truthy(el.hasRotation, el.rotation)
    THEN rotatePoint(Pt(2 * pos.x, 2 * pos.y), getElementCenter(el), -el.rotation)
    ELSE Pt(2 * pos.x, 2 * pos.y)

HandleHitSize(h) ==
    IF h.type \in {"copy", "rotation", "curve"} THEN ICON_HANDLE_SIZE ELSE HANDLE_SIZE

HandleHit(h, lp) ==
    /\ Abs(lp.x - h.x) <= HandleHitSize(h)
    /\ Abs(lp.y - h.y) <= HandleHitSize(h)

\* hitTestHandle: the type of the first handle hit, "null" when none is
hitTestHandle(el, pos) ==
    CHOOSE type \in
        { LET hit == {i \in 1..Len(hs) : HandleHit(hs[i], lp)}
          IN  IF hit = {} THEN "null" ELSE hs[SetMin(hit)].type :
          lp \in {LocalPos(el, pos)}, hs \in {getHandles(el)} } : TRUE

\* the shape test of getElementAtPosition for one element
ShapeHit(el, pos) ==
    \E lp \in {LocalPos(el, pos)} :
        CASE IsBoxType(el) ->
                LET n == normalizeRect(el)
                IN  /\ lp.x >= 2 * n.x
                    /\ lp.x <= 2 * (n.x + n.width)
                    /\ lp.y >= 2 * n.y
                    /\ lp.y <= 2 * (n.y + n.height)
          [] IsLineType(el) ->
                \/ /\ IsCurved(el)
                   /\ \E i \in 0..CURVE_SAMPLES :
                        LET p == getPointOnQuadraticCurve(i, Pt(el.x, el.y),
                                     Pt(el.cp1x, el.cp1y), Pt(el.x2, el.y2))
                            sc == CURVE_SAMPLES * CURVE_SAMPLES
                        IN  HypotLess(2 * p.x - sc * lp.x, 2 * p.y - sc * lp.y,
                                      2 * sc * LINE_HIT_THRESHOLD)
                \/ /\ ~IsCurved(el)
                   /\ distanceToLineSegmentLess(lp, Pt(2 * el.x, 2 * el.y),
                          Pt(2 * el.x2, 2 * el.y2), 2 * LINE_HIT_THRESHOLD)
                \/ /\ el.type = "arrow"
                   /\ HypotLess(lp.x - 2 * el.x2, lp.y - 2 * el.y2, 2 * ARROWHEAD_HIT)
          [] el.type = "text" ->
                LET m == measureText(el.text, el.fontSize)
                IN  /\ lp.x >= 2 * el.x
                    /\ lp.x <= 2 * (el.x + m.width)
                    /\ lp.y >= 2 * el.y
                    /\ lp.y <= 2 * (el.y + m.height)
          [] el.type = "circle" ->
                /\ el.radius >= 0
                /\ (lp.x - 2 * el.x) * (lp.x - 2 * el.x)
                     + (lp.y - 2 * el.y) * (lp.y - 2 * el.y)
                     <= 4 * el.radius * el.radius
          [] el.type = "pencil" ->
                LET b == getPencilElementBounds(el)
                    buffer == LINE_HIT_THRESHOLD
                IN  /\ pos.x >= b.minX - buffer
                    /\ pos.x <= b.maxX + buffer
                    /\ pos.y >= b.minY - buffer
                    /\ pos.y <= b.maxY + buffer
                    /\ \E i \in 1..(Len(el.points) - 1) :
                         distanceToLineSegmentLess(lp,
                             Pt(2 * el.points[i].x, 2 * el.points[i].y),
                             Pt(2 * el.points[i + 1].x, 2 * el.points[i + 1].y),
                             2 * buffer)
          [] OTHER -> FALSE

\* ScanDown, had the loop run from the bottom of the stack up
ScanDown_bottomFirst(els, pos, i) ==
    LET hit == {j \in 1..i : ShapeHit(els[j], pos)}
    IN  IF hit = {} THEN 0 ELSE SetMin(hit)

\* the loop of getElementAtPosition: from index i down to 1, the first index whose
\* shape test passes, 0 when none does
RECURSIVE ScanDown(_, _, _)
ScanDown(els, pos, i) ==
    IF i = 0 THEN 0
    ELSE IF ShapeHit(els[i], pos) THEN i
    ELSE ScanDown(els, pos, i - 1)

\* getElementAtPosition, had the loop started one below the last element
getElementAtPosition_belowLast(els, pos) ==
    LET i == ScanDown(els, pos, Max(Len(els) - 1, 0))
    IN  IF i = 0 THEN Null ELSE els[i]

\* getElementAtPosition: the element hit, Null when none is
getElementAtPosition(els, pos) ==
    LET i == ScanDown(els, pos, Len(els))
    IN  IF i = 0 THEN Null ELSE els[i]

MovePoints(pts, dx, dy) == [i \in 1..Len(pts) |-> Pt(pts[i].x + dx, pts[i].y + dy)]

\* moveElement, had it left the curve handle of a line where it was
moveElement_leavesHandle(el, dx, dy) ==
    CASE IsLineType(el) ->
            [el EXCEPT !.x = @ + dx, !.y = @ + dy, !.x2 = @ + dx, !.y2 = @ + dy,
                       !.cp1x = IF el.hasCp THEN @ + dx ELSE @,
                       !.cp1y = IF el.hasCp THEN @ + dy ELSE @]
      [] el.type = "pencil" ->
            [el EXCEPT !.x = @ + dx, !.y = @ + dy, !.points = MovePoints(@, dx, dy)]
      [] OTHER -> [el EXCEPT !.x = @ + dx, !.y = @ + dy]

\* moveElement (the code mutates its argument; here the moved element is returned)
moveElement(el, dx, dy) ==
    CASE IsLineType(el) ->
            [el EXCEPT !.x = @ + dx, !.y = @ + dy, !.x2 = @ + dx, !.y2 = @ + dy,
                       !.cp1x = IF el.hasCp THEN @ + dx ELSE @,
                       !.cp1y = IF el.hasCp THEN @ + dy ELSE @,
                       !.curveHandleX = IF el.hasCurveHandle THEN @ + dx ELSE @,
                       !.curveHandleY = IF el.hasCurveHandle THEN @ + dy ELSE @]
      [] el.type = "pencil" ->
            [el EXCEPT !.x = @ + dx, !.y = @ + dy, !.points = MovePoints(@, dx, dy)]
      [] el.type \in {"rectangle", "circle", "diamond", "text"} ->
            [el EXCEPT !.x = @ + dx, !.y = @ + dy]
      [] OTHER -> el

\* delete el.cp1x; delete el.cp1y; delete el.curveHandleX; delete el.curveHandleY
ResetCurve(el) ==
    [el EXCEPT !.hasCp = FALSE, !.cp1x = 0, !.cp1y = 0,
               !.hasCurveHandle = FALSE, !.curveHandleX = 0, !.curveHandleY = 0]

\* resizeElement, had an endpoint handle left the curve as it was
resizeElement_keepsCurve(el, handle, dx, dy) ==
    CASE IsLineType(el) /\ handle = "start" -> [el EXCEPT !.x = @ + dx, !.y = @ + dy]
      [] IsLineType(el) /\ handle = "end" -> [el EXCEPT !.x2 = @ + dx, !.y2 = @ + dy]
      [] OTHER -> el

resizeElement_noClamp(el, handle, dx, dy) ==
    CASE handle = "null" -> el
      [] IsBoxType(el) /\ handle = "top-left" ->
            [el EXCEPT !.x = @ + dx, !.y = @ + dy, !.width = @ - dx, !.height = @ - dy]
      [] IsBoxType(el) /\ handle = "top-right" ->
            [el EXCEPT !.y = @ + dy, !.width = @ + dx, !.height = @ - dy]
      [] IsBoxType(el) /\ handle = "bottom-left" ->
            [el EXCEPT !.x = @ + dx, !.width = @ - dx, !.height = @ + dy]
      [] IsBoxType(el) /\ handle = "bottom-right" ->
            [el EXCEPT !.width = @ + dx, !.height = @ + dy]
      [] IsLineType(el) /\ handle = "start" ->
            ResetCurve([el EXCEPT !.x = @ + dx, !.y = @ + dy])
      [] IsLineType(el) /\ handle = "end" ->
            ResetCurve([el EXCEPT !.x2 = @ + dx, !.y2 = @ + dy])
      [] el.type = "circle" /\ handle = "radius" ->
            [el EXCEPT !.radius = @ + dx]
      [] el.type = "text" /\ handle = "bottom-right" ->
            [el EXCEPT !.fontSize = Max(MIN_FONT_SIZE, @ + dx \div 2)]
      [] OTHER -> el

\* resizeElement (returns the resized element); handle "null" is no handle.
\* A text's font size grows by dx * 0.5: exact when dx is even (ResizeExact)
resizeElement(el, handle, dx, dy) ==
    CASE handle = "null" -> el
      [] IsBoxType(el) /\ handle = "top-left" ->
            [el EXCEPT !.x = @ + dx, !.y = @ + dy, !.width = @ - dx, !.height = @ - dy]
      [] IsBoxType(el) /\ handle = "top-right" ->
            [el EXCEPT !.y = @ + dy, !.width = @ + dx, !.height = @ - dy]
      [] IsBoxType(el) /\ handle = "bottom-left" ->
            [el EXCEPT !.x = @ + dx, !.width = @ - dx, !.height = @ + dy]
      [] IsBoxType(el) /\ handle = "bottom-right" ->
            [el EXCEPT !.width = @ + dx, !.height = @ + dy]
      [] IsLineType(el) /\ handle = "start" ->
            ResetCurve([el EXCEPT !.x = @ + dx, !.y = @ + dy])
      [] IsLineType(el) /\ handle = "end" ->
            ResetCurve([el EXCEPT !.x2 = @ + dx, !.y2 = @ + dy])
      [] el.type = "circle" /\ handle = "radius" ->
            [el EXCEPT !.radius = Max(0, @ + dx)]
      [] el.type = "text" /\ handle = "bottom-right" ->
            [el EXCEPT !.fontSize = Max(MIN_FONT_SIZE, @ + dx \div 2)]
      [] OTHER -> el

ResizeExact(el, handle, dx) ==
    (el.type = "text" /\ handle = "bottom-right") => dx % 2 = 0

\* the AABB test the code repeats for each variant
Overlaps(rx, ry, rw, rh, ex, ey, ew, eh) ==
    rx < ex + ew /\ rx + rw > ex /\ ry < ey + eh /\ ry + rh > ey

isElementIntersectingRect(element, rect) ==
    LET r == normalizeRect(rect)
    IN  CASE IsBoxType(element) ->
                LET e == normalizeRect(element)
                IN  Overlaps(r.x, r.y, r.width, r.height, e.x, e.y, e.width, e.height)
          [] IsLineType(element) ->
                Overlaps(r.x, r.y, r.width, r.height,
                         Min(element.x, element.x2), Min(element.y, element.y2),
                         Abs(element.x - element.x2), Abs(element.y - element.y2))
          [] element.type = "circle" ->
                LET dx == element.x - Max(r.x, Min(element.x, r.x + r.width))
                    dy == element.y - Max(r.y, Min(element.y, r.y + r.height))
                IN  dx * dx + dy * dy < element.radius * element.radius
          [] element.type = "text" ->
                LET m == measureText(element.text, element.fontSize)
                IN  Overlaps(r.x, r.y, r.width, r.height,
                             element.x, element.y, m.width, m.height)
          [] element.type = "pencil" ->
                LET b == getPencilElementBounds(element)
                IN  Overlaps(r.x, r.y, r.width, r.height,
                             b.minX, b.minY, b.maxX - b.minX, b.maxY - b.minY)
          [] OTHER -> FALSE

----------------------------------------------------------------------------
(* Path simplification: geometry.ts rdp, simplifyPath *)

\* perpendicularDistanceToLine, as a measure that orders the distances of one
\* chord: the numerator |dy x0 - dx y0 + x2 y1 - y2 x1| when the chord has
\* length, the squared distance to the chord's point when it has none
perpendicularDistanceToLine(point, lineStart, lineEnd) ==
    LET dx == lineEnd.x - lineStart.x
        dy == lineEnd.y - lineStart.y
    IN  IF dx = 0 /\ dy = 0
        THEN (point.x - lineStart.x) * (point.x - lineStart.x)
               + (point.y - lineStart.y) * (point.y - lineStart.y)
        ELSE Abs(dy * point.x - dx * point.y
                   + lineEnd.x * lineStart.y - lineEnd.y * lineStart.x)

\* a comparison that never finds the deviation greater than the tolerance
ExceedsEpsilon_never(m, lineStart, lineEnd, epsilon) == FALSE

\* maxDist > epsilon for the measure m of the chord lineStart..lineEnd
ExceedsEpsilon(m, lineStart, lineEnd, epsilon) ==
    LET dx == lineEnd.x - lineStart.x
        dy == lineEnd.y - lineStart.y
    IN  IF dx = 0 /\ dy = 0 THEN m > epsilon * epsilon
        ELSE m > 46340 \/ m * m > epsilon * epsilon * (dx * dx + dy * dy)

RECURSIVE rdp(_, _)
\* rdp joining the two halves without removing the duplicate middle point
rdp_joinKeepsMiddle(points, epsilon) ==
    IF Len(points) < 3 THEN points
    ELSE LET n == Len(points)
             dist(i) == perpendicularDistanceToLine(points[i], points[1], points[n])
             inner == 2..(n - 1)
             maxDist == SetMax({0} \cup {dist(i) : i \in inner})
             index == SetMin({i \in inner : dist(i) = maxDist})
         IN  IF maxDist > 0 /\ ExceedsEpsilon(maxDist, points[1], points[n], epsilon)
             THEN rdp(SubSeq(points, 1, index), epsilon)
                    \o rdp(SubSeq(points, index, n), epsilon)
             ELSE << points[1], points[n] >>

\* rdp, had the right half started after the split point
rdp_rightSkipsSplit(points, epsilon) ==
    IF Len(points) < 3 THEN points
    ELSE LET n == Len(points)
             dist(i) == perpendicularDistanceToLine(points[i], points[1], points[n])
             inner == 2..(n - 1)
             maxDist == SetMax({0} \cup {dist(i) : i \in inner})
             index == SetMin({i \in inner : dist(i) = maxDist})
         IN  IF maxDist > 0 /\ ExceedsEpsilon(maxDist, points[1], points[n], epsilon)
             THEN LET left == rdp(SubSeq(points, 1, index), epsilon)
                      right == rdp(SubSeq(points, index + 1, n), epsilon)
                  IN  SubSeq(left, 1, Len(left) - 1) \o right
             ELSE << points[1], points[n] >>

rdp(points, epsilon) ==
    IF Len(points) < 3 THEN points
    ELSE LET n == Len(points)
             dist(i) == perpendicularDistanceToLine(points[i], points[1], points[n])
             inner == 2..(n - 1)
             maxDist == SetMax({0} \cup {dist(i) : i \in inner})
             \* dist > maxDist is strict: the first index of the greatest distance
             index == SetMin({i \in inner : dist(i) = maxDist})
         IN  IF maxDist > 0 /\ ExceedsEpsilon(maxDist, points[1], points[n], epsilon)
             THEN LET left == rdp(SubSeq(points, 1, index), epsilon)
                      right == rdp(SubSeq(points, index, n), epsilon)
                  IN  SubSeq(left, 1, Len(left) - 1) \o right
             ELSE << points[1], points[n] >>

simplifyPath(points, epsilon) == rdp(points, epsilon)

----------------------------------------------------------------------------
(* The collection: index.tsx *)

\* updatedElementsMap.get(id): the last of the updated elements with that id
MapGet(updated, id) ==
    updated[SetMax({i \in 1..Len(updated) : updated[i].id = id})]

\* updateElements, had it only appended the elements with a new id
updateElements_appendOnly(prevElements, updatedElements) ==
    LET IsNew(el) == el.id \notin Ids(prevElements)
    IN  prevElements \o SelectSeq(updatedElements, IsNew)

\* updateElements, had it appended every updated element, new id or not
updateElements_appendAll(prevElements, updatedElements) ==
    [i \in 1..Len(prevElements) |->
        IF prevElements[i].id \in Ids(updatedElements)
        THEN MapGet(updatedElements, prevElements[i].id)
        ELSE prevElements[i]] \o updatedElements

\* updateElements: the value of the collection after the state updater has run
updateElements(prevElements, updatedElements) ==
    LET newElements ==
            [i \in 1..Len(prevElements) |->
                IF prevElements[i].id \in Ids(updatedElements)
                THEN MapGet(updatedElements, prevElements[i].id)
                ELSE prevElements[i]]
        IsNew(el) == el.id \notin Ids(prevElements)
    IN  newElements \o SelectSeq(updatedElements, IsNew)

\* elements.filter(el => el.id !== id)
WithoutId(els, id) ==
    LET Keep(el) == el.id # id
    IN  SelectSeq(els, Keep)

\* WithoutIds, had it removed the element of the smallest id only
WithoutIds_onlyLead(els, ids) ==
    LET Keep(el) == ids = {} \/ el.id # SetMin(ids)
    IN  SelectSeq(els, Keep)

WithoutIds(els, ids) ==
    LET Keep(el) == el.id \notin ids
    IN  SelectSeq(els, Keep)

\* generateId: id.ts is not among the sources; ids are handed out in sequence
generateId == nextId

\* JSON.parse(JSON.stringify(el)): the fields that are present, by value
JsonClone(el) ==
    [f \in DOMAIN el |-> el[f]]

----------------------------------------------------------------------------
(* Pointer bookkeeping and the viewport: useInteractions.ts *)

PointerIdsDown == {activePointers[i].id : i \in 1..Len(activePointers)}

\* activePointers.current.set(id, p): a Map keeps the place of a key it has
MapSet(m, id, p) ==
    IF \E i \in 1..Len(m) : m[i].id = id
    THEN [i \in 1..Len(m) |-> IF m[i].id = id THEN [id |-> id, p |-> p] ELSE m[i]]
    ELSE Append(m, [id |-> id, p |-> p])

MapDelete(m, id) ==
    LET Keep(e) == e.id # id
    IN  SelectSeq(m, Keep)

\* the midpoint of the first two active pointers, doubled
Midpoint(m) == Pt(m[1].p.x + m[2].p.x, m[1].p.y + m[2].p.y)

\* the reference point of a pan for the event at screen position p, doubled
PanPoint(m, p) == IF Len(m) > 1 THEN Midpoint(m) ELSE Pt(2 * p.x, 2 * p.y)

\* getCanvasPos: screen to world
getCanvasPos(p) ==
    Pt((p.x - viewTransform.offsetX) \div viewTransform.scale,
       (p.y - viewTransform.offsetY) \div viewTransform.scale)

InWorld(n) == -CoordMax <= n /\ n <= CoordMax

ElementInWorld(el) ==
    /\ InWorld(el.x) /\ InWorld(el.y) /\ InWorld(el.x2) /\ InWorld(el.y2)
    /\ InWorld(el.x + el.width) /\ InWorld(el.y + el.height)
    /\ InWorld(el.radius) /\ InWorld(el.cp1x) /\ InWorld(el.cp1y)
    /\ InWorld(el.fontSize)
    /\ \A i \in 1..Len(el.points) : InWorld(el.points[i].x) /\ InWorld(el.points[i].y)

AllInWorld(els) == \A i \in 1..Len(els) : ElementInWorld(els[i])

----------------------------------------------------------------------------
(* Pointer-down: useInteractions.ts handlePointerDown *)

\* the handler that runs, the action it finds, the ids a delete or a clear-all
\* has removed from the collection so far, and the world position of the last
\* press while its gesture lasts
Event(t) ==
    [type |-> t, was |-> action,
     press |-> CASE t = "pointerDown" ->
                      getCanvasPos(activePointers'[Len(activePointers')].p)
                 [] t = "pointerUp" -> Null
                 [] OTHER -> lastEvent.press,
     gone |-> CASE t = "delete" -> lastEvent.gone
                                     \cup (Ids(elements) \cap Ids(selectedElements))
                [] t = "clear" -> lastEvent.gone \cup Ids(elements)
                [] OTHER -> lastEvent.gone]

\* the variables no pointer-down branch writes
DownFrame ==
    UNCHANGED <<selectedTool, editingElement, labelText, drawingAngleInfo,
                isSpacePressed, isCtrlPressed, viewTransform>>

\* if (e.button === 1 || isSpacePressed || isCtrlPressed || activePointers.size > 1)
PanTrigger(button, pointers) ==
    button = 1 \/ isSpacePressed \/ isCtrlPressed \/ Len(pointers) > 1

\* EnterPan, had a drawing in progress been kept in the selection
EnterPan_keepsDrawing(pointers, p) ==
    /\ action' = "panning"
    /\ panStartRef' = [point |-> PanPoint(pointers, p),
                       offsetX |-> viewTransform.offsetX,
                       offsetY |-> viewTransform.offsetY]
    /\ UNCHANGED <<elements, selectedElements, selectionRect, resizeHandle, startPos,
                   dragOffset, rotationCenterRef, initialRotationRef, nextId>>

\* EnterPan, had the pan origin been the untouched viewport
EnterPan_originUnset(pointers, p) ==
    /\ IF action = "drawing" /\ Len(selectedElements) > 0
       THEN /\ elements' = updateElements(elements,
                               WithoutId(elements, selectedElements[1].id))
            /\ selectedElements' = << >>
       ELSE UNCHANGED <<elements, selectedElements>>
    /\ action' = "panning"
    /\ panStartRef' = [point |-> PanPoint(pointers, p), offsetX |-> 0, offsetY |-> 0]
    /\ UNCHANGED <<selectionRect, resizeHandle, startPos, dragOffset,
                   rotationCenterRef, initialRotationRef, nextId>>

\* lines 256-296: enter panning, cancelling a drawing in progress
EnterPan(pointers, p) ==
    /\ IF action = "drawing" /\ Len(selectedElements) > 0
       THEN /\ elements' = updateElements(elements,
                               WithoutId(elements, selectedElements[1].id))
            /\ selectedElements' = << >>
       ELSE UNCHANGED <<elements, selectedElements>>
    /\ action' = "panning"
    /\ panStartRef' = [point |-> PanPoint(pointers, p),
                       offsetX |-> viewTransform.offsetX,
                       offsetY |-> viewTransform.offsetY]
    /\ UNCHANGED <<selectionRect, resizeHandle, startPos, dragOffset,
                   rotationCenterRef, initialRotationRef, nextId>>

\* CopyElement, had the clone's anchor alone been offset
CopyElement_anchorOnly(activeElement) ==
    [JsonClone(activeElement) EXCEPT !.id = generateId,
                                     !.x = @ + COPY_OFFSET, !.y = @ + COPY_OFFSET]

\* lines 169-178: the copy handle
CopyElement(activeElement) ==
    moveElement([JsonClone(activeElement) EXCEPT !.id = generateId],
                COPY_OFFSET, COPY_OFFSET)

\* lines 157-186: a handle of the first selected element is hit
HandleDown(handle, activeElement, pos) ==
    CASE handle = "curve" ->
            /\ action' = "curving"
            /\ UNCHANGED <<elements, selectedElements, selectionRect, resizeHandle,
                           startPos, dragOffset, rotationCenterRef,
                           initialRotationRef, nextId>>
      [] handle = "rotation" ->
            /\ action' = "rotating"
            /\ rotationCenterRef' = getElementCenter(activeElement)
            /\ initialRotationRef' =
                   IF activeElement.hasRotation THEN activeElement.rotation ELSE 0
            /\ startPos' = pos
            /\ UNCHANGED <<elements, selectedElements, selectionRect, resizeHandle,
                           dragOffset, nextId>>
      [] handle = "copy" ->
            /\ nextId <= MaxId
            /\ ElementInWorld(CopyElement(activeElement))
            /\ elements' = updateElements(elements, << CopyElement(activeElement) >>)
            /\ selectedElements' = << CopyElement(activeElement) >>
            /\ action' = "none"
            /\ nextId' = nextId + 1
            /\ UNCHANGED <<selectionRect, resizeHandle, startPos, dragOffset,
                           rotationCenterRef, initialRotationRef>>
      [] OTHER ->
            /\ action' = "resizing"
            /\ resizeHandle' = handle
            /\ startPos' = pos
            /\ UNCHANGED <<elements, selectedElements, selectionRect, dragOffset,
                           rotationCenterRef, initialRotationRef, nextId>>

\* lines 191-199: an element's body is under the pointer
BodyDown(elementUnderPointer, pos) ==
    /\ action' = "dragging"
    /\ dragOffset' = Pt(pos.x - elementUnderPointer.x, pos.y - elementUnderPointer.y)
    /\ selectedElements' =
           IF elementUnderPointer.id \notin Ids(selectedElements)
           THEN << elementUnderPointer >> ELSE selectedElements
    /\ UNCHANGED <<elements, selectionRect, resizeHandle, startPos,
                   rotationCenterRef, initialRotationRef, nextId>>

\* EmptyDown, had the selection been kept
EmptyDown_keepsSelection(pos) ==
    /\ action' = "multi-selecting"
    /\ startPos' = pos
    /\ selectionRect' = [x |-> pos.x, y |-> pos.y, width |-> 0, height |-> 0]
    /\ UNCHANGED <<elements, selectedElements, resizeHandle, dragOffset,
                   rotationCenterRef, initialRotationRef, nextId>>

\* lines 201-213: empty space
EmptyDown(pos) ==
    /\ action' = "multi-selecting"
    /\ startPos' = pos
    /\ selectionRect' = [x |-> pos.x, y |-> pos.y, width |-> 0, height |-> 0]
    /\ selectedElements' = << >>
    /\ UNCHANGED <<elements, resizeHandle, dragOffset, rotationCenterRef,
                   initialRotationRef, nextId>>

\* the handle of the first selected element under the pointer, "null" when the
\* selection is empty or none is hit (lines 152-157)
HandleUnderPointer(pos) ==
    IF Len(selectedElements) > 0
    THEN hitTestHandle(selectedElements[1], pos) ELSE "null"

\* handleSelectionInteraction with the handle tested after the bodies
handleSelectionInteraction_bodyFirst(pos) ==
    \E handle \in {HandleUnderPointer(pos)},
       elementUnderPointer \in {getElementAtPosition(elements, pos)} :
        IF elementUnderPointer # Null
        THEN BodyDown(elementUnderPointer, pos)
        ELSE IF handle # "null"
             THEN HandleDown(handle, selectedElements[1], pos)
             ELSE EmptyDown(pos)

\* lines 150-214: handleSelectionInteraction
handleSelectionInteraction(pos) ==
    \E handle \in {HandleUnderPointer(pos)},
       elementUnderPointer \in {getElementAtPosition(elements, pos)} :
        IF handle # "null"
        THEN HandleDown(handle, selectedElements[1], pos)
        ELSE IF elementUnderPointer # Null
             THEN BodyDown(elementUnderPointer, pos)
             ELSE EmptyDown(pos)

\* NewElement, had a line's second endpoint been left at the origin
NewElement_openLine(tool, pos) ==
    CASE tool \in {"rectangle", "diamond"} -> RectEl(generateId, tool, pos.x, pos.y, 0, 0)
      [] tool = "circle" -> CircleEl(generateId, pos.x, pos.y, 0)
      [] tool = "arrow" -> LineEl(generateId, "arrow", pos.x, pos.y, pos.x, pos.y)
      [] tool = "pencil" -> PencilEl(generateId, << Pt(pos.x, pos.y) >>)
      [] OTHER -> LineEl(generateId, "line", pos.x, pos.y, 0, 0)

\* lines 228-239: the zero-extent element of a shape tool
NewElement(tool, pos) ==
    CASE tool \in {"rectangle", "diamond"} -> RectEl(generateId, tool, pos.x, pos.y, 0, 0)
      [] tool = "circle" -> CircleEl(generateId, pos.x, pos.y, 0)
      [] tool = "arrow" -> LineEl(generateId, "arrow", pos.x, pos.y, pos.x, pos.y)
      [] tool = "pencil" -> PencilEl(generateId, << Pt(pos.x, pos.y) >>)
      [] OTHER -> LineEl(generateId, "line", pos.x, pos.y, pos.x, pos.y)

\* lines 219-244: handleDrawingInteraction
handleDrawingInteraction(pos) ==
    IF selectedTool = "text"
    THEN /\ action' = "placing"
         /\ startPos' = pos
         /\ UNCHANGED <<elements, selectedElements, selectionRect, resizeHandle,
                        dragOffset, rotationCenterRef, initialRotationRef, nextId>>
    ELSE /\ selectedElements' = << NewElement(selectedTool, pos) >>
         /\ startPos' = pos
         /\ action' = "drawing"
         /\ nextId' = nextId + 1
         /\ UNCHANGED <<elements, selectionRect, resizeHandle, dragOffset,
                        rotationCenterRef, initialRotationRef>>

handlePointerDown(pointerId, button, p) ==
    LET pointers == MapSet(activePointers, pointerId, p)
    IN  /\ pointerId \notin PointerIdsDown
        /\ activePointers' = pointers
        /\ lastEvent' = Event("pointerDown")
        /\ DownFrame
        /\ IF PanTrigger(button, pointers)
           THEN EnterPan(pointers, p)
           ELSE /\ UNCHANGED panStartRef
                /\ IF selectedTool = "selection"
                   THEN handleSelectionInteraction(getCanvasPos(p))
                   ELSE /\ nextId <= MaxId
                        /\ handleDrawingInteraction(getCanvasPos(p))

----------------------------------------------------------------------------
(* Pointer-move: useInteractions.ts handlePointerMove *)

\* MoveFrame, had each pointer-move written the selection through to the collection
MoveFrame_commits ==
    /\ elements' = updateElements(elements, selectedElements)
    /\ UNCHANGED <<selectedTool, editingElement, labelText, isSpacePressed,
                   isCtrlPressed, resizeHandle, dragOffset, panStartRef,
                   rotationCenterRef, initialRotationRef, nextId>>

\* the variables no pointer-move branch writes
MoveFrame ==
    UNCHANGED <<elements, selectedTool, editingElement, labelText, isSpacePressed,
                isCtrlPressed, resizeHandle, dragOffset, panStartRef,
                rotationCenterRef, initialRotationRef, nextId>>

IsSquare(n) == \E r \in 0..(2 * CoordMax) : r * r = n
Sqrt(n) == CHOOSE r \in 0..(2 * CoordMax) : r * r = n

\* Math.atan2(y, x) in degrees, for a vector along an axis
OnAxis(v) == v.x = 0 \/ v.y = 0
Atan2Deg(y, x) ==
    CASE y = 0 /\ x >= 0 -> 0
      [] x = 0 /\ y > 0 -> 90
      [] y = 0 /\ x < 0 -> 180
      [] OTHER -> -90

\* PanMove, had each move added its delta to the current offset
PanMove_fromCurrent(pointers, p) ==
    LET cur == PanPoint(pointers, p)
        dx2 == cur.x - panStartRef.point.x
        dy2 == cur.y - panStartRef.point.y
    IN  /\ dx2 % 2 = 0 /\ dy2 % 2 = 0
        /\ Abs(viewTransform.offsetX + dx2 \div 2) <= MaxPan
        /\ Abs(viewTransform.offsetY + dy2 \div 2) <= MaxPan
        /\ viewTransform' = [viewTransform EXCEPT
                                !.offsetX = viewTransform.offsetX + dx2 \div 2,
                                !.offsetY = viewTransform.offsetY + dy2 \div 2]
        /\ UNCHANGED <<action, selectedElements, startPos, drawingAngleInfo, selectionRect>>

\* lines 322-343
PanMove(pointers, p) ==
    LET cur == PanPoint(pointers, p)
        dx2 == cur.x - panStartRef.point.x
        dy2 == cur.y - panStartRef.point.y
    IN  /\ dx2 % 2 = 0 /\ dy2 % 2 = 0
        /\ Abs(panStartRef.offsetX + dx2 \div 2) <= MaxPan
        /\ Abs(panStartRef.offsetY + dy2 \div 2) <= MaxPan
        /\ viewTransform' = [viewTransform EXCEPT
                                !.offsetX = panStartRef.offsetX + dx2 \div 2,
                                !.offsetY = panStartRef.offsetY + dy2 \div 2]
        /\ UNCHANGED <<action, selectedElements, startPos, drawingAngleInfo, selectionRect>>

\* lines 348-356
PlacingMove(pos) ==
    LET dx == pos.x - startPos.x
        dy == pos.y - startPos.y
    IN  /\ action' = IF dx * dx + dy * dy > PLACING_THRESHOLD * PLACING_THRESHOLD
                     THEN "none" ELSE action
        /\ UNCHANGED <<selectedElements, startPos, drawingAngleInfo, viewTransform,
                       selectionRect>>

\* lines 400-407
MarqueeMove(pos) ==
    /\ selectionRect' = [selectionRect EXCEPT !.width = pos.x - startPos.x,
                                              !.height = pos.y - startPos.y]
    /\ UNCHANGED <<action, selectedElements, startPos, drawingAngleInfo, viewTransform>>

\* the angle readout of a line from (x, y) to (x2, y2): shown unless it has no length
AngleInfo(el, pos) ==
    IF el.x2 - el.x # 0 \/ el.y2 - el.y # 0 THEN Pt(pos.x, pos.y) ELSE Null

\* lines 410-440
DrawnElement(el, pos) ==
    CASE IsBoxType(el) ->
            [el EXCEPT !.width = pos.x - startPos.x, !.height = pos.y - startPos.y]
      [] el.type = "pencil" ->
            [el EXCEPT !.points = Append(@, Pt(pos.x, pos.y))]
      [] IsLineType(el) ->
            [el EXCEPT !.x2 = pos.x, !.y2 = pos.y]
      [] el.type = "circle" ->
            [el EXCEPT !.radius =
                Sqrt((pos.x - startPos.x) * (pos.x - startPos.x)
                       + (pos.y - startPos.y) * (pos.y - startPos.y))]
      [] OTHER -> el

DrawingMove(pos) ==
    LET updatedEl == DrawnElement(selectedElements[1], pos)
    IN  /\ selectedElements[1].type = "circle" =>
                IsSquare((pos.x - startPos.x) * (pos.x - startPos.x)
                           + (pos.y - startPos.y) * (pos.y - startPos.y))
        /\ Len(updatedEl.points) <= MaxPoints
        /\ ElementInWorld(updatedEl)
        /\ selectedElements' = << updatedEl >>
        /\ drawingAngleInfo' =
               IF IsLineType(updatedEl) THEN AngleInfo(updatedEl, pos)
               ELSE IF updatedEl.type \in {"rectangle", "diamond", "pencil", "circle"}
                    THEN Null ELSE drawingAngleInfo
        /\ UNCHANGED <<action, startPos, viewTransform, selectionRect>>

\* lines 442-453
DraggingMove(pos) ==
    LET hit == getElementAtPosition(selectedElements, startPos)
        leadElement == IF hit # Null THEN hit ELSE selectedElements[1]
        dx == pos.x - dragOffset.x - leadElement.x
        dy == pos.y - dragOffset.y - leadElement.y
        moved == [i \in 1..Len(selectedElements) |->
                     moveElement(selectedElements[i], dx, dy)]
    IN  /\ AllInWorld(moved)
        /\ selectedElements' = moved
        /\ UNCHANGED <<action, startPos, drawingAngleInfo, viewTransform, selectionRect>>

\* the curving move, had it taken the dragged point itself for the control point
CurvedElement_controlAtHandle(activeElement, pos) ==
    LET lp == LocalPos(activeElement, pos)
    IN  [activeElement EXCEPT
            !.hasCp = TRUE, !.cp1x = lp.x \div 2, !.cp1y = lp.y \div 2,
            !.hasCurveHandle = TRUE,
            !.curveHandleX = lp.x \div 2, !.curveHandleY = lp.y \div 2]

\* lines 455-479
CurvedElement(activeElement, pos) ==
    LET lp == LocalPos(activeElement, pos)
    IN  [activeElement EXCEPT
            !.hasCp = TRUE,
            !.cp1x = (2 * lp.x - activeElement.x - activeElement.x2) \div 2,
            !.cp1y = (2 * lp.y - activeElement.y - activeElement.y2) \div 2,
            !.hasCurveHandle = TRUE,
            !.curveHandleX = lp.x \div 2,
            !.curveHandleY = lp.y \div 2]

CurvingMove(pos) ==
    LET activeElement == selectedElements[1]
        lp == LocalPos(activeElement, pos)
    IN  /\ IF IsLineType(activeElement)
           THEN /\ lp.x % 2 = 0 /\ lp.y % 2 = 0
                /\ (activeElement.x + activeElement.x2) % 2 = 0
                /\ (activeElement.y + activeElement.y2) % 2 = 0
                /\ CurveExact(CurvedElement(activeElement, pos))
                /\ ElementInWorld(CurvedElement(activeElement, pos))
                /\ selectedElements' = << CurvedElement(activeElement, pos) >>
           ELSE UNCHANGED selectedElements
        /\ UNCHANGED <<action, startPos, drawingAngleInfo, viewTransform, selectionRect>>

\* RotatingMove, had the angle been added to the element's current rotation
RotatingMove_fromCurrent(pos) ==
    LET center == rotationCenterRef
        startVector == Pt(2 * startPos.x - center.x, 2 * startPos.y - center.y)
        currentVector == Pt(2 * pos.x - center.x, 2 * pos.y - center.y)
        angleDiff == Atan2Deg(currentVector.y, currentVector.x)
                       - Atan2Deg(startVector.y, startVector.x)
        newRotation == selectedElements[1].rotation + angleDiff
    IN  /\ OnAxis(startVector) /\ OnAxis(currentVector)
        /\ Abs(newRotation) <= MaxRotation
        /\ selectedElements' =
               << [selectedElements[1] EXCEPT !.hasRotation = TRUE,
                                              !.rotation = newRotation] >>
        /\ UNCHANGED <<action, startPos, drawingAngleInfo, viewTransform, selectionRect>>

\* lines 481-494
RotatingMove(pos) ==
    LET center == rotationCenterRef
        startVector == Pt(2 * startPos.x - center.x, 2 * startPos.y - center.y)
        currentVector == Pt(2 * pos.x - center.x, 2 * pos.y - center.y)
        angleDiff == Atan2Deg(currentVector.y, currentVector.x)
                       - Atan2Deg(startVector.y, startVector.x)
        newRotation == initialRotationRef + angleDiff
    IN  /\ OnAxis(startVector) /\ OnAxis(currentVector)
        /\ Abs(newRotation) <= MaxRotation
        /\ selectedElements' =
               << [selectedElements[1] EXCEPT !.hasRotation = TRUE,
                                              !.rotation = newRotation] >>
        /\ UNCHANGED <<action, startPos, drawingAngleInfo, viewTransform, selectionRect>>

\* lines 496-515
ResizingMove(pos) ==
    LET activeElement == selectedElements[1]
        dx == pos.x - startPos.x
        dy == pos.y - startPos.y
        resizedEl == resizeElement(activeElement, resizeHandle, dx, dy)
    IN  /\ ResizeExact(activeElement, resizeHandle, dx)
        /\ ElementInWorld(resizedEl)
        /\ selectedElements' = << resizedEl >>
        /\ drawingAngleInfo' =
               IF IsLineType(resizedEl)
               THEN IF AngleInfo(resizedEl, pos) # Null
                    THEN AngleInfo(resizedEl, pos) ELSE drawingAngleInfo
               ELSE Null
        /\ startPos' = pos
        /\ UNCHANGED <<action, viewTransform, selectionRect>>

handlePointerMove(pointerId, p) ==
    LET pointers == IF pointerId \in PointerIdsDown
                    THEN MapSet(activePointers, pointerId, p) ELSE activePointers
        pos == getCanvasPos(p)
    IN  /\ activePointers' = pointers
        /\ lastEvent' = Event("pointerMove")
        /\ MoveFrame
        /\ CASE action = "panning" -> PanMove(pointers, p)
             [] action = "placing" -> PlacingMove(pos)
             [] action = "multi-selecting" /\ selectionRect # Null -> MarqueeMove(pos)
             [] action = "drawing" /\ Len(selectedElements) > 0 -> DrawingMove(pos)
             [] action = "dragging" /\ Len(selectedElements) > 0 -> DraggingMove(pos)
             [] action = "curving" /\ Len(selectedElements) > 0 -> CurvingMove(pos)
             [] action = "rotating" /\ Len(selectedElements) > 0
                  /\ rotationCenterRef # Null -> RotatingMove(pos)
             [] action = "resizing" /\ Len(selectedElements) > 0
                  /\ resizeHandle # "null" -> ResizingMove(pos)
             [] OTHER -> UNCHANGED <<action, selectedElements, startPos,
                                     drawingAngleInfo, viewTransform, selectionRect>>

----------------------------------------------------------------------------
(* Pointer-up: useInteractions.ts handlePointerUp *)

\* NewTextElement, had the text been anchored at the world's origin
NewTextElement_atOrigin ==
    [TextEl(generateId, 0, 0, "", TEXT_FONT_SIZE) EXCEPT !.width = 0, !.height = 0]

\* lines 537-547
NewTextElement ==
    [TextEl(generateId, startPos.x, startPos.y, "", TEXT_FONT_SIZE)
        EXCEPT !.width = 0, !.height = 0]

\* the label editor's effect (index.tsx:149-161) when an element starts being edited
EditorText(el) == IF el.type = "text" THEN el.text ELSE el.label

\* lines 557-565
FinalElement(el) ==
    IF el.type = "pencil" /\ Len(el.points) > 1
    THEN [el EXCEPT !.points = simplifyPath(el.points, PENCIL_EPSILON)]
    ELSE el

FinalElements(sel) == [i \in 1..Len(sel) |-> FinalElement(sel[i])]

\* MarqueeSelection, had the topmost intersecting element alone been selected
MarqueeSelection_topmost(els, rect) ==
    LET inside == {i \in 1..Len(els) : isElementIntersectingRect(els[i], rect)}
    IN  IF inside = {} THEN << >> ELSE << els[SetMax(inside)] >>

\* elements.filter(el => isElementIntersectingRect(el, selectionRect))
MarqueeSelection(els, rect) ==
    LET Inside(el) == isElementIntersectingRect(el, rect)
    IN  SelectSeq(els, Inside)

IsTransforming(a) == a \in {"drawing", "resizing", "dragging", "rotating", "curving"}

\* PanUp, had the pan gone on while another pointer is still down
PanUp_whileTouching ==
    /\ action' = IF activePointers' # << >> THEN "panning" ELSE "none"
    /\ UNCHANGED <<elements, selectedTool, selectedElements, editingElement,
                   labelText, drawingAngleInfo, selectionRect, resizeHandle,
                   rotationCenterRef, nextId>>

\* lines 527-534: a pan ends on pointer-up
PanUp ==
    /\ action' = "none"
    /\ UNCHANGED <<elements, selectedTool, selectedElements, editingElement,
                   labelText, drawingAngleInfo, selectionRect, resizeHandle,
                   rotationCenterRef, nextId>>

\* ToolAfterUp, had the pencil been put down like the other tools
ToolAfterUp_always(a, tool) ==
    IF a \in {"drawing", "placing"} THEN "selection" ELSE tool

\* lines 576-583: the tool after the pointer-up of action a
ToolAfterUp(a, tool) ==
    IF a = "drawing"
    THEN IF tool # "pencil" THEN "selection" ELSE tool
    ELSE IF a = "placing" THEN "selection" ELSE tool

handlePointerUp(pointerId) ==
    /\ activePointers' = MapDelete(activePointers, pointerId)
    /\ lastEvent' = Event("pointerUp")
    /\ UNCHANGED <<isSpacePressed, isCtrlPressed, viewTransform, startPos, dragOffset,
                   panStartRef, initialRotationRef>>
    /\ IF action = "panning"
       THEN PanUp
       ELSE /\ CASE action = "placing" /\ selectedTool = "text" ->
                      /\ nextId <= MaxId
                      /\ editingElement' = NewTextElement
                      /\ labelText' = EditorText(NewTextElement)
                      /\ nextId' = nextId + 1
                      /\ UNCHANGED <<elements, selectedElements, selectionRect>>
                 [] action = "multi-selecting" /\ selectionRect # Null ->
                      /\ selectedElements' = MarqueeSelection(elements, selectionRect)
                      /\ selectionRect' = Null
                      /\ UNCHANGED <<elements, editingElement, labelText, nextId>>
                 [] IsTransforming(action) /\ Len(selectedElements) > 0 ->
                      /\ elements' = updateElements(elements,
                                                    FinalElements(selectedElements))
                      /\ UNCHANGED <<selectedElements, selectionRect, editingElement,
                                     labelText, nextId>>
                 [] OTHER ->
                      UNCHANGED <<elements, selectedElements, selectionRect,
                                  editingElement, labelText, nextId>>
            /\ action' = "none"
            /\ drawingAngleInfo' = Null
            /\ resizeHandle' = "null"
            /\ rotationCenterRef' = Null
            /\ selectedTool' = ToolAfterUp(action, selectedTool)

----------------------------------------------------------------------------
(* Commands of the host UI: index.tsx, Toolbar.tsx, useKeyboard.ts *)

\* the variables of useInteractions, which no host command writes
InteractionFrame ==
    UNCHANGED <<action, selectionRect, resizeHandle, startPos, dragOffset,
                activePointers, panStartRef, rotationCenterRef, initialRotationRef,
                drawingAngleInfo, viewTransform, nextId>>

\* Toolbar.tsx:48 onClick={() => setSelectedTool(name)}
setSelectedTool(tool) ==
    /\ selectedTool' = tool
    /\ lastEvent' = Event("tool")
    /\ InteractionFrame
    /\ UNCHANGED <<elements, selectedElements, editingElement, labelText,
                   isSpacePressed, isCtrlPressed>>

\* index.tsx:134-139
handleDeleteSelected ==
    /\ Len(selectedElements) # 0
    /\ elements' = WithoutIds(elements, Ids(selectedElements))
    /\ selectedElements' = << >>
    /\ lastEvent' = Event("delete")
    /\ InteractionFrame
    /\ UNCHANGED <<selectedTool, editingElement, labelText, isSpacePressed,
                   isCtrlPressed>>

\* index.tsx:303-306
handleClear ==
    /\ elements' = << >>
    /\ selectedElements' = << >>
    /\ lastEvent' = Event("clear")
    /\ InteractionFrame
    /\ UNCHANGED <<selectedTool, editingElement, labelText, isSpacePressed,
                   isCtrlPressed>>

\* useKeyboard.ts: space and control, pressed and released
setIsSpacePressed(isPressed) ==
    /\ isSpacePressed' = isPressed
    /\ lastEvent' = Event("key")
    /\ InteractionFrame
    /\ UNCHANGED <<elements, selectedTool, selectedElements, editingElement,
                   labelText, isCtrlPressed>>

setIsCtrlPressed(isPressed) ==
    /\ isCtrlPressed' = isPressed
    /\ lastEvent' = Event("key")
    /\ InteractionFrame
    /\ UNCHANGED <<elements, selectedTool, selectedElements, editingElement,
                   labelText, isSpacePressed>>

\* index.tsx:228-246
handleDoubleClick(p) ==
    LET element == getElementAtPosition(elements, getCanvasPos(p))
    IN  /\ IF element # Null
           THEN /\ editingElement' = element
                /\ selectedElements' = << element >>
                /\ labelText' = EditorText(element)
           ELSE UNCHANGED <<editingElement, selectedElements, labelText>>
        /\ lastEvent' = Event("doubleClick")
        /\ InteractionFrame
        /\ UNCHANGED <<elements, selectedTool, isSpacePressed, isCtrlPressed>>

\* index.tsx:249-251; the editor is rendered only while an element is edited
handleLabelChange(value) ==
    /\ editingElement # Null
    /\ labelText' = value
    /\ lastEvent' = Event("labelChange")
    /\ InteractionFrame
    /\ UNCHANGED <<elements, selectedTool, selectedElements, editingElement,
                   isSpacePressed, isCtrlPressed>>

\* index.tsx:257-264
LabelledElement(el, value) ==
    IF el.type = "text"
    THEN resizeElement([el EXCEPT !.text = value], "bottom-right", 0, 0)
    ELSE [el EXCEPT !.hasLabel = TRUE, !.label = value]

ReplaceById(sel, updated) ==
    [i \in 1..Len(sel) |-> IF sel[i].id = updated.id THEN updated ELSE sel[i]]

\* index.tsx:254-286 (the editor's blur, or Enter)
handleLabelUpdate ==
    LET updatedElement == LabelledElement(editingElement, labelText)
    IN  /\ editingElement # Null
        /\ IF /\ updatedElement.type = "text"
              /\ updatedElement.text = ""
              /\ updatedElement.id \notin Ids(elements)
           THEN UNCHANGED <<elements, selectedElements>>
           ELSE /\ elements' = updateElements(elements, << updatedElement >>)
                /\ selectedElements' = ReplaceById(selectedElements, updatedElement)
        /\ editingElement' = Null
        /\ labelText' = ""
        /\ lastEvent' = Event("labelUpdate")
        /\ InteractionFrame
        /\ UNCHANGED <<selectedTool, isSpacePressed, isCtrlPressed>>

\* index.tsx:294-299 (Escape in the editor)
handleLabelEscape ==
    /\ editingElement # Null
    /\ editingElement' = Null
    /\ labelText' = ""
    /\ lastEvent' = Event("labelEscape")
    /\ InteractionFrame
    /\ UNCHANGED <<elements, selectedTool, selectedElements, isSpacePressed,
                   isCtrlPressed>>

----------------------------------------------------------------------------
(* Sessions: a stored collection (index.tsx:48-57 loads it) and the inputs of   *)
(* the user in that session: the screen points pointer events arrive at, the   *)
(* tools picked, the pointers and buttons used, the texts typed                *)

Box == RectEl(1, "rectangle", 40, 80, 40, 40)
Disc == CircleEl(1, 60, 100, 20)
Arrow == LineEl(1, "arrow", 40, 80, 80, 80)
Stroke == PencilEl(1, << Pt(40, 80), Pt(60, 100), Pt(80, 80) >>)
Caption == [TextEl(1, 40, 80, "ab", TEXT_FONT_SIZE) EXCEPT !.width = 48, !.height = 24]
\* Arrow, curved by dragging its curve handle to (60, 100)
Bow == [Arrow EXCEPT !.hasCp = TRUE, !.cp1x = 60, !.cp1y = 120,
                     !.hasCurveHandle = TRUE, !.curveHandleX = 60, !.curveHandleY = 100]

pBody == Pt(60, 100)
pTop == Pt(60, 80)
pCorner == Pt(40, 80)
pCopy == Pt(60, 50)
pRotation == Pt(60, 26)
pRight == Pt(80, 100)
pFar == Pt(120, 100)

pAbove == Pt(60, 76)

Session(els, pts, tls, ptrs, btns, cmds, txts) ==
    [elements |-> els, points |-> pts, tools |-> tls, pointers |-> ptrs,
     buttons |-> btns, commands |-> cmds, texts |-> txts]

DrawingTools == << "rectangle", "diamond", "circle", "arrow", "pencil", "text", "line" >>

Sessions ==
    << \* 1: one box, selected and transformed by its handles
       Session(<< Box >>, {pBody, pCorner, pCopy, pRotation, pFar},
               {"selection"}, {1}, {0}, {}, {}),
       \* 2: an arrow over a box: the arrow's handles lie on both bodies
       Session(<< Box, [Arrow EXCEPT !.id = 2] >>,
               {pTop, pCorner, pBody, pCopy, pRotation},
               {"selection"}, {1}, {0}, {}, {}),
       \* 3: a box over a disc: the disc is reached by a marquee only
       Session(<< Disc, [Box EXCEPT !.id = 2] >>, {pFar, pCorner, pRight, pCopy},
               {"selection"}, {1}, {0}, {}, {}),
       \* 4: a pencil stroke and a text, and the delete command
       Session(<< Stroke, [Caption EXCEPT !.id = 2] >>, {pBody, pCopy, pFar, pCorner},
               {"selection"}, {1}, {0}, {"delete"}, {}),
       \* 5: panning with a second finger
       Session(<< Box >>, {pBody, pFar},
               {"selection", "rectangle"}, {1, 2}, {0}, {}, {}),
       \* 6: panning with the middle button and the space bar
       Session(<< Box >>, {pBody, pRight},
               {"selection", "rectangle"}, {1}, {0, 1}, {"space"}, {}),
       \* 7: panning with the control key, and a second finger
       Session(<< Box >>, {pBody, pRight},
               {"selection"}, {1, 2}, {0}, {"ctrl"}, {}),
       \* 8: labelling a box, and deleting it
       Session(<< Box >>, {pBody, pFar},
               {"selection"}, {1}, {0}, {"label", "delete"}, {"", "ab"}),
       \* 9: placing a text, and clear-all
       Session(<< Box >>, {pBody, pFar},
               {"text"}, {1}, {0}, {"clear"}, {"", "ab"}) >>
    \o \* 10-16: drawing on an empty board, one session per tool
       [i \in 1..Len(DrawingTools) |->
           Session(<< >>, {pTop, pBody}, {DrawingTools[i]}, {1}, {0}, {}, {})]
    \o \* 17: a curved arrow
       << Session(<< Bow >>, {pBody, pCorner, pCopy, pFar},
                  {"selection"}, {1}, {0}, {}, {}),
          \* 18: an arrow selected by a double click, and a second finger laid down
          \* while one of its handles is held
          Session(<< Arrow >>, {pCorner, pRotation},
                  {"selection"}, {1, 2}, {0}, {"label"}, {}),
          \* 19: the same, the handle being the curve handle
          Session(<< Arrow >>, {pTop, pFar},
                  {"selection"}, {1, 2}, {0}, {"label"}, {}),
          \* 20: a second finger laid down while a text is being placed
          Session(<< >>, {pBody, pFar}, {"text"}, {1, 2}, {0}, {}, {}),
          \* 21: a stroke begun while the label of a box is being edited
          Session(<< Box >>, {pBody}, {"pencil"}, {1}, {0}, {"label"}, {}),
          \* 22: a slanted line: pTop is on it, pBody is off it, within the box of
          \* its endpoints
          Session(<< LineEl(1, "line", 40, 60, 100, 120) >>, {pTop, pBody},
                  {"selection"}, {1}, {0}, {}, {}) >>

SessionIds == 1..Len(Sessions)
Points == Sessions[session].points
Tools == Sessions[session].tools
PointerIds == Sessions[session].pointers
Buttons == Sessions[session].buttons
Texts == Sessions[session].texts
Uses(command) == command \in Sessions[session].commands

\* the state after construction, the stored collection of the session loaded
Constructed ==
    /\ gestures = 0
    /\ elements = Sessions[session].elements
    /\ selectedTool = "selection"
    /\ selectedElements = << >>
    /\ editingElement = Null
    /\ labelText = ""
    /\ drawingAngleInfo = Null
    /\ isSpacePressed = FALSE
    /\ isCtrlPressed = FALSE
    /\ viewTransform = [scale |-> 1, offsetX |-> 0, offsetY |-> 0]
    /\ action = "none"
    /\ selectionRect = Null
    /\ resizeHandle = "null"
    /\ startPos = Pt(0, 0)
    /\ dragOffset = Pt(0, 0)
    /\ activePointers = << >>
    /\ panStartRef = [point |-> Pt(0, 0), offsetX |-> 0, offsetY |-> 0]
    /\ rotationCenterRef = Null
    /\ initialRotationRef = 0
    /\ nextId = Len(elements) + 1
    /\ lastEvent = [type |-> "init", was |-> "none", press |-> Null, gone |-> {}]

Init ==
    /\ session \in SessionIds
    /\ Constructed
    /\ probe = Null

PointerDown == \E id \in PointerIds, b \in Buttons, p \in Points :
                   /\ gestures < MaxGestures
                   /\ handlePointerDown(id, b, p)
                   /\ gestures' = gestures + 1
                   /\ UNCHANGED <<session, probe>>
PointerMove == \E id \in PointerIds, p \in Points :
                   handlePointerMove(id, p) /\ UNCHANGED <<session, gestures, probe>>
PointerUp == \E id \in PointerIds : handlePointerUp(id) /\ UNCHANGED <<session, gestures, probe>>
\* the toolbar is clicked with the pointer, so while no pointer is down on the canvas
SelectTool == \E t \in Tools :
                  /\ activePointers = << >>
                  /\ setSelectedTool(t)
                  /\ UNCHANGED <<session, gestures, probe>>
DeleteSelected == Uses("delete") /\ handleDeleteSelected /\ UNCHANGED <<session, gestures, probe>>
Clear == Uses("clear") /\ handleClear /\ UNCHANGED <<session, gestures, probe>>
Space == Uses("space") /\ \E b \in BOOLEAN : setIsSpacePressed(b) /\ UNCHANGED <<session, gestures, probe>>
Ctrl == Uses("ctrl") /\ \E b \in BOOLEAN : setIsCtrlPressed(b) /\ UNCHANGED <<session, gestures, probe>>
\* a double click ends with the release of the pointer, so it comes while no
\* pointer is down on the canvas
DoubleClick == /\ Uses("label")
               /\ activePointers = << >>
               /\ \E p \in Points : handleDoubleClick(p)
               /\ UNCHANGED <<session, gestures, probe>>
LabelChange == \E t \in Texts : handleLabelChange(t) /\ UNCHANGED <<session, gestures, probe>>
LabelUpdate == handleLabelUpdate /\ UNCHANGED <<session, gestures, probe>>
LabelEscape == Uses("label") /\ handleLabelEscape /\ UNCHANGED <<session, gestures, probe>>

Next ==
    \/ PointerDown
    \/ PointerMove
    \/ PointerUp
    \/ SelectTool
    \/ DeleteSelected
    \/ Clear
    \/ Space
    \/ Ctrl
    \/ DoubleClick
    \/ LabelChange
    \/ LabelUpdate
    \/ LabelEscape

Spec == Init /\ [][Next]_vars

----------------------------------------------------------------------------
(* Calls of the kernel on its own: the arguments are drawn when the call is   *)
(* set up, the call is made once and its result kept                          *)

RECURSIVE PathsOfLen(_)
PathsOfLen(n) ==
    IF n = 0 THEN {<< >>}
    ELSE {Append(path, Pt(gx, gy)) :
             path \in PathsOfLen(n - 1), gx \in 0..GridMax,
             gy \in IF n = 1 THEN {0} ELSE 0..1}

SimplifyCalls ==
    {[fn |-> "simplifyPath", points |-> path, epsilon |-> e, done |-> FALSE,
      simplified |-> << >>] :
        path \in UNION {PathsOfLen(n) : n \in 0..MaxPathLen}, e \in 0..MaxEpsilon}

\* the shapes a collection under test is stacked from, with the id i
Shapes(i) ==
    { RectEl(i, "rectangle", 10, 10, 100, 50),
      [RectEl(i, "rectangle", 10, 10, 100, 50) EXCEPT !.hasRotation = TRUE,
                                                      !.rotation = 90],
      CircleEl(i, 50, 30, 20),
      CircleEl(i, 0, 0, 20),
      LineEl(i, "line", 10, 10, 110, 60),
      PencilEl(i, << Pt(10, 10), Pt(50, 30) >>) }

RECURSIVE StacksOfLen(_)
StacksOfLen(n) ==
    IF n = 0 THEN {<< >>}
    ELSE {Append(stack, el) : stack \in StacksOfLen(n - 1), el \in Shapes(n)}

\* a rotated pencil stroke and two curved arrows (one with its control point
\* at y = 0) are looked up alone
HitCalls ==
    {[fn |-> "getElementAtPosition", elements |-> stack, pos |-> pt, done |-> FALSE,
      found |-> Null] :
        stack \in UNION {StacksOfLen(n) : n \in 0..MaxStack}
                    \cup {<< el >> : el \in
                        { [PencilEl(1, << Pt(10, 10), Pt(50, 30) >>) EXCEPT !.hasRotation = TRUE,
                        !.rotation = 90],
                        [LineEl(1, "arrow", 40, 80, 80, 80) EXCEPT
                        !.hasCp = TRUE, !.cp1x = 60, !.cp1y = 120,
                        !.hasCurveHandle = TRUE, !.curveHandleX = 60, !.curveHandleY = 100],
                        [LineEl(1, "arrow", 40, 80, 80, 80) EXCEPT
                        !.hasCp = TRUE, !.cp1x = 60, !.cp1y = 0,
                        !.hasCurveHandle = TRUE, !.curveHandleX = 60, !.curveHandleY = 40] }},
        pt \in {Pt(200, 200), Pt(50, 30), Pt(0, 0), Pt(20, 30), Pt(60, 80),
                 Pt(100, 55), Pt(60, 100), Pt(60, 40), Pt(40, 0)}}

\* the elements the kernel is called with on its own: the stored ones, boxes
\* drawn leftwards or upwards, a line, an arrow with its control point at y = 0
Samples ==
    { Box, Disc, Arrow, Stroke, Caption, Bow,
      RectEl(1, "rectangle", 80, 120, -40, -40),
      RectEl(1, "diamond", 80, 80, -40, 40),
      RectEl(1, "diamond", 40, 120, 40, -40),
      LineEl(1, "line", 80, 120, 40, 80),
      [Arrow EXCEPT !.hasCp = TRUE, !.cp1x = 60, !.cp1y = 0,
                    !.hasCurveHandle = TRUE, !.curveHandleX = 60, !.curveHandleY = 40] }

Corners == {"top-left", "top-right", "bottom-left", "bottom-right"}

\* the selection rectangle of a marquee over area, dragged from the corner c:
\* x, y the corner, width and height the way to the opposite corner
DraggedFrom(area, c) ==
    [x |-> IF c \in {"top-left", "bottom-left"} THEN area.x ELSE area.x + area.width,
     y |-> IF c \in {"top-left", "top-right"} THEN area.y ELSE area.y + area.height,
     width |-> IF c \in {"top-left", "bottom-left"} THEN area.width ELSE -area.width,
     height |-> IF c \in {"top-left", "top-right"} THEN area.height ELSE -area.height]

IntersectCalls ==
    {[fn |-> "isElementIntersectingRect", element |-> el,
      area |-> [x |-> 20 * ax, y |-> 40 * ay, width |-> 20 * aw, height |-> 20 * ah],
      done |-> FALSE, hits |-> [c \in Corners |-> FALSE]] :
        el \in Samples, ax \in 0..MaxCell, ay \in 0..(MaxCell \div 2),
        aw \in 0..MaxCell, ah \in 0..MaxCell}

\* rectangles of either type with sides of either sign
Rects ==
    {RectEl(1, t, rx, ry, 20 * w, 20 * h) :
        t \in {"rectangle", "diamond"}, rx \in {0, 40}, ry \in {0, 80},
        w \in (-MaxCell)..MaxCell, h \in (-MaxCell)..MaxCell}

NormalizeCalls ==
    {[fn |-> "normalizeRect", rect |-> r, done |-> FALSE, once |-> Null,
      twice |-> Null] : r \in Rects}

\* the corner c of the box el covers
CornerOf(el, c) ==
    LET n == normalizeRect(el)
    IN  Pt(IF c \in {"top-left", "bottom-left"} THEN n.x ELSE n.x + n.width,
           IF c \in {"top-left", "top-right"} THEN n.y ELSE n.y + n.height)

\* hitTestHandle is asked at the corners of the box, at its centre and at the
\* places getHandles gives for its handles
QueryPoints(el) ==
    {CornerOf(el, c) : c \in Corners}
        \cup {Pt(el.x + el.width \div 2, el.y + el.height \div 2)}
        \cup {Pt(getHandles(el)[i].x \div 2, getHandles(el)[i].y \div 2) :
                 i \in 1..Len(getHandles(el))}

HandleCalls ==
    UNION {{[fn |-> "hitTestHandle", element |-> el, pos |-> pt, done |-> FALSE,
             handle |-> "null"] : pt \in QueryPoints(el)} : el \in Rects}

HandlesCalls ==
    {[fn |-> "getHandles", element |-> el, done |-> FALSE, handles |-> << >>] :
        el \in Rects \cup Samples}

CenterCalls ==
    {[fn |-> "getElementCenter", element |-> el, done |-> FALSE, center |-> Null] :
        el \in Samples}

\* a box is resized by one of its corner handles, by a step of the pointer
ResizeCalls ==
    {[fn |-> "resizeElement", element |-> el, handle |-> c, dx |-> sx, dy |-> sy,
      done |-> FALSE, resized |-> Null] :
        el \in {r \in Rects : r.x = 0 /\ r.y = 0}, c \in Corners,
        sx \in {-10, 0, 10}, sy \in {-10, 0, 10}}

MoveCalls ==
    {[fn |-> "moveElement", element |-> el, dx |-> 10 * sx, dy |-> 10 * sy,
      done |-> FALSE, moved |-> Null, back |-> Null] :
        el \in Samples, sx \in (-MaxShift)..MaxShift, sy \in (-MaxShift)..MaxShift}

\* the editor itself is idle during such a call
Idle ==
    UNCHANGED <<elements, selectedTool, selectedElements, editingElement, labelText,
                drawingAngleInfo, isSpacePressed, isCtrlPressed, viewTransform,
                action, selectionRect, resizeHandle, startPos, dragOffset,
                activePointers, panStartRef, rotationCenterRef, initialRotationRef,
                nextId, lastEvent, session, gestures>>

KernelInit ==
    /\ session = 1
    /\ Constructed
    /\ \/ probe \in SimplifyCalls
       \/ probe \in HitCalls
       \/ probe \in IntersectCalls
       \/ probe \in MoveCalls
       \/ probe \in NormalizeCalls
       \/ probe \in HandleCalls
       \/ probe \in ResizeCalls
       \/ probe \in HandlesCalls
       \/ probe \in CenterCalls

Simplify ==
    /\ probe.fn = "simplifyPath"
    /\ ~probe.done
    /\ probe' = [probe EXCEPT !.done = TRUE,
                              !.simplified = simplifyPath(probe.points, probe.epsilon)]
    /\ Idle

ElementAt ==
    /\ probe.fn = "getElementAtPosition"
    /\ ~probe.done
    /\ probe' = [probe EXCEPT !.done = TRUE,
                              !.found = getElementAtPosition(probe.elements, probe.pos)]
    /\ Idle

\* isElementIntersectingRect, once for each corner the marquee may start from
Intersect ==
    /\ probe.fn = "isElementIntersectingRect"
    /\ ~probe.done
    /\ probe' = [probe EXCEPT !.done = TRUE,
                              !.hits = [c \in Corners |->
                                  isElementIntersectingRect(probe.element,
                                      DraggedFrom(probe.area, c))]]
    /\ Idle

\* moveElement by (dx, dy), and moveElement of the result by (-dx, -dy)
Move ==
    /\ probe.fn = "moveElement"
    /\ ~probe.done
    /\ \E there \in {moveElement(probe.element, probe.dx, probe.dy)} :
          probe' = [probe EXCEPT !.done = TRUE, !.moved = there,
                                 !.back = moveElement(there, -probe.dx, -probe.dy)]
    /\ Idle

\* normalizeRect, and normalizeRect of the result
Normalize ==
    /\ probe.fn = "normalizeRect"
    /\ ~probe.done
    /\ \E n \in {normalizeRect(probe.rect)} :
          probe' = [probe EXCEPT !.done = TRUE, !.once = n, !.twice = normalizeRect(n)]
    /\ Idle

HandleAt ==
    /\ probe.fn = "hitTestHandle"
    /\ ~probe.done
    /\ probe' = [probe EXCEPT !.done = TRUE,
                              !.handle = hitTestHandle(probe.element, probe.pos)]
    /\ Idle

Resize ==
    /\ probe.fn = "resizeElement"
    /\ ~probe.done
    /\ probe' = [probe EXCEPT !.done = TRUE,
                              !.resized = resizeElement(probe.element, probe.handle,
                                                        probe.dx, probe.dy)]
    /\ Idle

Handles ==
    /\ probe.fn = "getHandles"
    /\ ~probe.done
    /\ probe' = [probe EXCEPT !.done = TRUE, !.handles = getHandles(probe.element)]
    /\ Idle

Center ==
    /\ probe.fn = "getElementCenter"
    /\ ~probe.done
    /\ probe' = [probe EXCEPT !.done = TRUE, !.center = getElementCenter(probe.element)]
    /\ Idle

KernelNext ==
    \/ Simplify
    \/ ElementAt
    \/ Intersect
    \/ Move
    \/ Normalize
    \/ HandleAt
    \/ Resize
    \/ Handles
    \/ Center

KernelSpec == KernelInit /\ [][KernelNext]_vars

----------------------------------------------------------------------------
(* Properties *)

\* the conditions the properties are stated under, spelled out from the text
NoPanTrigger(button) ==
    button # 1 /\ ~isSpacePressed /\ ~isCtrlPressed /\ activePointers = << >>

HandleHitAt(pos) ==
    IF Len(selectedElements) > 0
    THEN hitTestHandle(selectedElements[1], pos) ELSE "null"

BodiesAt(els, pos) == {i \in 1..Len(els) : ShapeHit(els[i], pos)}

\* a pointer-down with the selection tool and no pan trigger, at world position pos
SelectionDown(id, b, p) ==
    /\ lastEvent'.type = "pointerDown"
    /\ selectedTool = "selection"
    /\ NoPanTrigger(b)
    /\ handlePointerDown(id, b, p)

\* the world position of the one pointer that is down
PointerPos == getCanvasPos(activePointers[1].p)

Stored == Sessions[session].elements

\* C1: after any pointer-up event, whatever the action was before it and however
\* many pointers are still down, the action is none
C1_PointerUpEndsInNone ==
    lastEvent.type = "pointerUp" => action = "none"

\* a pan with two pointers has ended with one of them still down
C1_Witness ==
    /\ lastEvent.type = "pointerUp"
    /\ lastEvent.was = "panning"
    /\ activePointers # << >>

\* the value a committed element is stored with
AsHeld(s) == s
AsStored(s) ==
    IF s.type = "pencil" /\ Len(s.points) > 1
    THEN [s EXCEPT !.points = simplifyPath(s.points, 1)]
    ELSE s

\* a pointer-up in drawing, resizing, dragging, rotating or curving with a
\* non-empty selection leaves every selected element in the collection under its
\* id with the value Value gives it (in place if the id existed, else at the end)
\* and the entries of other ids as they were
Committed(Value(_)) ==
    ( /\ lastEvent'.type = "pointerUp"
      /\ action \in {"drawing", "resizing", "dragging", "rotating", "curving"}
      /\ Len(selectedElements) > 0 ) =>
        /\ Len(elements') =
               Len(elements) + Cardinality(Ids(selectedElements) \ Ids(elements))
        /\ \A k \in 1..Len(selectedElements) :
               LET s == selectedElements[k]
               IN  IF s.id \in Ids(elements)
                   THEN \A i \in 1..Len(elements) :
                            elements[i].id = s.id => elements'[i] = Value(s)
                   ELSE \E j \in (Len(elements) + 1)..Len(elements') :
                            elements'[j] = Value(s)
        /\ \A i \in 1..Len(elements) :
               elements[i].id \notin Ids(selectedElements) => elements'[i] = elements[i]

\* C2 as claimed: the commit stores exactly the value each selected element has
C2_CommitStoresHeldValue == [][Committed(AsHeld)]_vars

\* C2: the commit stores each selected element's value, a pencil stroke of more
\* than one point with its points simplified (tolerance 1), under its id: in place
\* if the id existed, appended otherwise, and the other entries are unchanged
C2_CommitStoresSimplified == [][Committed(AsStored)]_vars

\* a stroke has been drawn and committed, and the collection's copy of it differs
\* from the one the selection holds
C2_Witness ==
    /\ lastEvent.type = "pointerUp"
    /\ lastEvent.was = "drawing"
    /\ Len(selectedElements) = 1
    /\ selectedElements[1].type = "pencil"
    /\ \E i \in 1..Len(elements) :
           /\ elements[i].id = selectedElements[1].id
           /\ elements[i] # selectedElements[1]
           /\ elements[i] = AsStored(selectedElements[1])

\* C3: no pointer-move changes the collection; the collection changes only on a
\* pointer-up, on the press of the copy handle, on delete, clear-all or a label update
C3_MovesLeaveCollection ==
    [][ /\ lastEvent'.type = "pointerMove" => elements' = elements
        /\ elements' # elements =>
              \/ lastEvent'.type \in {"pointerUp", "delete", "clear", "labelUpdate"}
              \/ /\ lastEvent'.type = "pointerDown"
                 /\ HandleHitAt(getCanvasPos(activePointers'[Len(activePointers')].p))
                        = "copy" ]_vars

\* in the middle of a drag the selection's copy has moved and the collection's has not
C3_Witness ==
    /\ lastEvent.type = "pointerMove"
    /\ action = "dragging"
    /\ Len(selectedElements) > 0
    /\ \E i \in 1..Len(elements) :
           /\ elements[i].id = selectedElements[1].id
           /\ elements[i].x # selectedElements[1].x
    /\ elements = Stored

\* C4: after a delete with a non-empty selection, in any action state, the
\* selection is empty and no element of the collection has a selected id; after
\* clear-all the collection and the selection are empty
C4_DeleteAndClear ==
    [][ /\ (lastEvent'.type = "delete" /\ Len(selectedElements) > 0) =>
              /\ selectedElements' = << >>
              /\ \A i \in 1..Len(elements') :
                     elements'[i].id \notin Ids(selectedElements)
              /\ action' = action
        /\ lastEvent'.type = "clear" =>
              elements' = << >> /\ selectedElements' = << >> ]_vars

\* a delete in the middle of a drag has removed the dragged element
C4_Witness ==
    /\ lastEvent.type = "delete"
    /\ action = "dragging"
    /\ activePointers # << >>
    /\ selectedElements = << >>
    /\ Len(elements) < Len(Stored)

\* C5: in every reachable state no two elements of the collection share an id
C5_UniqueIds ==
    \A i, j \in 1..Len(elements) : elements[i].id = elements[j].id => i = j

\* a clone has been added to a collection of two
C5_Witness ==
    /\ lastEvent.type = "pointerDown"
    /\ action = "none"
    /\ Len(elements) = 3
    /\ Len(Stored) = 2

\* C6: with the selection tool and no pan trigger, a pointer-down on a handle of
\* the first selected element is dispatched on the handle: rotation -> rotating,
\* curve -> curving, copy -> none, any other -> resizing with the handle recorded;
\* never dragging or multi-selecting, whatever bodies lie under the pointer
C6_HandleBeforeBody ==
    [][ \A id \in PointerIds, b \in Buttons, p \in Points :
          LET handle == HandleHitAt(getCanvasPos(p))
          IN  (SelectionDown(id, b, p) /\ handle # "null") =>
                /\ handle = "rotation" => action' = "rotating"
                /\ handle = "curve" => action' = "curving"
                /\ handle = "copy" => action' = "none"
                /\ handle \notin {"rotation", "curve", "copy"} =>
                       action' = "resizing" /\ resizeHandle' = handle
                /\ action' \notin {"dragging", "multi-selecting"} ]_vars

\* a resize or a curving has begun on a handle that lies on the body of another
\* element, one drawn above the selected element
C6_Witness ==
    /\ lastEvent.type = "pointerDown"
    /\ action \in {"resizing", "curving"}
    /\ Len(activePointers) = 1
    /\ Len(selectedElements) > 0
    /\ BodiesAt(elements, PointerPos) # {}
    /\ LET top == elements[SetMax(BodiesAt(elements, PointerPos))]
       IN  /\ top.id # selectedElements[1].id
           /\ \E i \in 1..Len(elements) :
                  elements[i].id = selectedElements[1].id
                    /\ i < SetMax(BodiesAt(elements, PointerPos))

\* the element with every field that bears a position moved by (15, 15)
Translated(el) ==
    [el EXCEPT !.x = el.x + 15, !.y = el.y + 15,
               !.x2 = IF IsLineType(el) THEN el.x2 + 15 ELSE el.x2,
               !.y2 = IF IsLineType(el) THEN el.y2 + 15 ELSE el.y2,
               !.cp1x = IF el.hasCp THEN el.cp1x + 15 ELSE el.cp1x,
               !.cp1y = IF el.hasCp THEN el.cp1y + 15 ELSE el.cp1y,
               !.curveHandleX = IF el.hasCurveHandle THEN el.curveHandleX + 15
                                ELSE el.curveHandleX,
               !.curveHandleY = IF el.hasCurveHandle THEN el.curveHandleY + 15
                                ELSE el.curveHandleY,
               !.points = [i \in 1..Len(el.points) |->
                              Pt(el.points[i].x + 15, el.points[i].y + 15)]]

\* C7: pressing the copy handle of the first selected element appends exactly one
\* element, of a fresh id, equal to the original translated by (15, 15); the
\* selection becomes that clone alone, the action stays none and the collection's
\* other entries, the original among them, are unchanged
C7_CopyIsOneShot ==
    [][ \A id \in PointerIds, b \in Buttons, p \in Points :
          (SelectionDown(id, b, p) /\ HandleHitAt(getCanvasPos(p)) = "copy") =>
              /\ Len(elements') = Len(elements) + 1
              /\ SubSeq(elements', 1, Len(elements)) = elements
              /\ LET clone == elements'[Len(elements')]
                     original == selectedElements[1]
                 IN  /\ clone.id \notin Ids(elements) \cup Ids(selectedElements)
                     /\ clone = [Translated(original) EXCEPT !.id = clone.id]
                     /\ selectedElements' = << clone >>
              /\ action' = "none" ]_vars

\* a curved arrow has been cloned: the clone is the last of the collection and
\* selected
C7_Witness ==
    /\ lastEvent.type = "pointerDown"
    /\ action = "none"
    /\ Len(elements) = Len(Stored) + 1
    /\ selectedElements = << elements[Len(elements)] >>
    /\ elements[Len(elements)].type = "arrow"
    /\ elements[Len(elements)].hasCp
    /\ \E i \in 1..Len(Stored) :
           elements[Len(elements)] =
               [Translated(Stored[i]) EXCEPT !.id = elements[Len(elements)].id]

\* C8: with the selection tool, no pan trigger and no handle hit, a pointer-down
\* over a body enters dragging with the click offset from the anchor of the topmost
\* element hit; that element alone becomes the selection iff its id was not
\* selected, and the selection is unchanged otherwise
C8_BodyStartsDrag ==
    [][ \A id \in PointerIds, b \in Buttons, p \in Points :
          LET pos == getCanvasPos(p)
              hits == BodiesAt(elements, pos)
          IN  (SelectionDown(id, b, p) /\ HandleHitAt(pos) = "null" /\ hits # {}) =>
                LET top == elements[SetMax(hits)]
                IN  /\ action' = "dragging"
                    /\ dragOffset' = Pt(pos.x - top.x, pos.y - top.y)
                    /\ top.id \notin Ids(selectedElements) =>
                           selectedElements' = << top >>
                    /\ top.id \in Ids(selectedElements) =>
                           selectedElements' = selectedElements ]_vars

\* a drag has begun where two bodies overlap, on the upper of the two
C8_Witness ==
    /\ lastEvent.type = "pointerDown"
    /\ action = "dragging"
    /\ Len(activePointers) = 1
    /\ Cardinality(BodiesAt(elements, PointerPos)) = 2
    /\ selectedElements = << elements[SetMax(BodiesAt(elements, PointerPos))] >>
    /\ dragOffset = Pt(PointerPos.x - selectedElements[1].x,
                       PointerPos.y - selectedElements[1].y)

\* C9: with the selection tool and no pan trigger, a pointer-down that hits no
\* handle of the first selected element and no body enters multi-selecting with a
\* marquee of width 0 and height 0 at the pointer's world position, and empties
\* the selection
C9_EmptySpaceStartsMarquee ==
    [][ \A id \in PointerIds, b \in Buttons, p \in Points :
          LET pos == getCanvasPos(p)
          IN  ( /\ SelectionDown(id, b, p)
                /\ HandleHitAt(pos) = "null"
                /\ BodiesAt(elements, pos) = {} ) =>
                /\ action' = "multi-selecting"
                /\ selectionRect' # Null
                /\ selectionRect'.x = pos.x /\ selectionRect'.y = pos.y
                /\ selectionRect'.width = 0 /\ selectionRect'.height = 0
                /\ selectedElements' = << >> ]_vars

\* a marquee has been started beside the elements of a collection
C9_Witness ==
    /\ lastEvent.type = "pointerDown"
    /\ action = "multi-selecting"
    /\ Len(activePointers) = 1
    /\ elements # << >>
    /\ selectionRect = [x |-> PointerPos.x, y |-> PointerPos.y,
                        width |-> 0, height |-> 0]
    /\ selectedElements = << >>
    /\ gestures > 1

\* C10: on pointer-up in multi-selecting the selection becomes the elements of
\* the collection, in its order, that isElementIntersectingRect finds in the
\* marquee; the marquee is removed and the collection is unchanged
C10_MarqueeSelects ==
    [][ (lastEvent'.type = "pointerUp" /\ action = "multi-selecting") =>
          /\ selectionRect # Null
          /\ LET Inside(el) == isElementIntersectingRect(el, selectionRect)
             IN  selectedElements' = SelectSeq(elements, Inside)
          /\ selectionRect' = Null
          /\ elements' = elements ]_vars

\* a marquee has selected the lower of two elements and not the upper
C10_Witness ==
    /\ lastEvent.type = "pointerUp"
    /\ lastEvent.was = "multi-selecting"
    /\ selectionRect = Null
    /\ Len(elements) = 2
    /\ selectedElements = << elements[1] >>

\* C11 as claimed: on the pointer-move that follows the press of a body, the
\* element that was pressed (the topmost of the collection under the pointer) has
\* its anchor at the pointer's world position less the recorded click offset,
\* whatever the size of the selection and its place in it
C11_LeadFollowsPointer ==
    [][ \A id \in PointerIds, p \in Points :
          ( /\ lastEvent.type = "pointerDown"
            /\ action = "dragging"
            /\ Len(activePointers) = 1
            /\ handlePointerMove(id, p) ) =>
              \E clicked \in {getElementAtPosition(elements, PointerPos)} :
                  \A i \in 1..Len(selectedElements') :
                      selectedElements'[i].id = clicked.id =>
                          /\ selectedElements'[i].x = getCanvasPos(p).x - dragOffset.x
                          /\ selectedElements'[i].y = getCanvasPos(p).y - dragOffset.y ]_vars

\* a pointer-down with a pan trigger
PanDown(id, b, p) ==
    /\ lastEvent'.type = "pointerDown"
    /\ ~NoPanTrigger(b)
    /\ handlePointerDown(id, b, p)

\* a pointer-down with a drawing tool and no pan trigger
DrawingDown(id, b, p) ==
    /\ lastEvent'.type = "pointerDown"
    /\ selectedTool # "selection"
    /\ NoPanTrigger(b)
    /\ handlePointerDown(id, b, p)

\* el is an element of type tool with no extent at pos
ZeroExtentAt(el, tool, pos) ==
    /\ el.type = tool
    /\ el.x = pos.x /\ el.y = pos.y
    /\ el.type \in {"rectangle", "diamond"} => el.width = 0 /\ el.height = 0
    /\ el.type = "circle" => el.radius = 0
    /\ el.type \in {"line", "arrow"} => el.x2 = el.x /\ el.y2 = el.y
    /\ el.type = "pencil" => el.points = << Pt(pos.x, pos.y) >>

\* C12: with a drawing tool and no pan trigger, a pointer-down with the text tool
\* enters placing and creates no element (collection, selection and editing
\* element are as before); with any other tool it makes a new element of the
\* tool's type, of zero extent at the pointer, the sole selection and enters
\* drawing, the collection unchanged
C12_DrawingToolDown ==
    [][ \A id \in PointerIds, b \in Buttons, p \in Points :
          DrawingDown(id, b, p) =>
              /\ elements' = elements
              /\ IF selectedTool = "text"
                 THEN /\ action' = "placing"
                      /\ selectedElements' = selectedElements
                      /\ editingElement' = editingElement
                 ELSE /\ action' = "drawing"
                      /\ Len(selectedElements') = 1
                      /\ ZeroExtentAt(selectedElements'[1], selectedTool,
                                      getCanvasPos(p)) ]_vars

\* a line or a box of no extent has just been started at the pointer
C12_Witness ==
    /\ lastEvent.type = "pointerDown"
    /\ action = "drawing"
    /\ Len(activePointers) = 1
    /\ selectedElements # << >>
    /\ ZeroExtentAt(selectedElements[1], selectedTool, PointerPos)
    /\ selectedTool \in {"line", "rectangle"}
    /\ selectedElements[1].id \notin Ids(elements)

\* C13: after the pointer-up that ends a drawing the tool is selection, unless the
\* tool is the pencil (the tool of the stroke being drawn), which stays; after the
\* pointer-up that ends a placing the tool is selection; a pointer-up that ends
\* any other action leaves the tool as it was
C13_ToolAfterPointerUp ==
    [][ lastEvent'.type = "pointerUp" =>
          /\ action = "drawing" =>
                /\ selectedTool # "pencil" => selectedTool' = "selection"
                /\ selectedTool = "pencil" => selectedTool' = "pencil"
                /\ Len(selectedElements) > 0 =>
                       selectedElements[1].type = selectedTool
          /\ action = "placing" => selectedTool' = "selection"
          /\ action \notin {"drawing", "placing"} => selectedTool' = selectedTool ]_vars

\* a pencil stroke has been committed and the pencil is still the tool
C13_Witness ==
    /\ lastEvent.type = "pointerUp"
    /\ lastEvent.was = "drawing"
    /\ selectedTool = "pencil"
    /\ \E i \in 1..Len(elements) : elements[i].type = "pencil"
    /\ action = "none"

\* C14: the press that starts a placing records the pointer's world position, and
\* it stays recorded while the placing lasts; the pointer-up of a placing with the
\* text tool makes the editing element a text element of empty text anchored
\* there and leaves the collection as it was; a text element whose id is new to
\* the collection enters it only by a label update of the editing element with a
\* non-empty text (or as the clone the copy handle makes of a stored text)
C14_PlacedTextEntersOnLabel ==
    [][ /\ \A id \in PointerIds, b \in Buttons, p \in Points :
              (DrawingDown(id, b, p) /\ selectedTool = "text") =>
                  startPos' = getCanvasPos(p)
        /\ (action = "placing" /\ action' = "placing") => startPos' = startPos
        /\ ( /\ lastEvent'.type = "pointerUp"
             /\ action = "placing"
             /\ selectedTool = "text" ) =>
               /\ editingElement' # Null
               /\ editingElement'.type = "text"
               /\ editingElement'.text = ""
               /\ editingElement'.x = startPos.x
               /\ editingElement'.y = startPos.y
               /\ elements' = elements
        /\ \A i \in 1..Len(elements') :
              (elements'[i].type = "text" /\ elements'[i].id \notin Ids(elements)) =>
                  \/ /\ lastEvent'.type = "labelUpdate"
                     /\ editingElement # Null
                     /\ editingElement.id = elements'[i].id
                     /\ labelText # ""
                     /\ elements'[i].text = labelText
                  \/ /\ lastEvent'.type = "pointerDown"
                     /\ HandleHitAt(getCanvasPos(activePointers'[Len(activePointers')].p))
                            = "copy" ]_vars

\* a text placed on the board has been given its text and stands in the collection
C14_Witness ==
    /\ lastEvent.type = "labelUpdate"
    /\ editingElement = Null
    /\ \E i \in 1..Len(elements) :
           /\ elements[i].type = "text"
           /\ elements[i].text = "ab"
           /\ elements[i].id \notin Ids(Stored)
           /\ elements[i].x = pFar.x
           /\ elements[i].y = pFar.y

\* C15: a pointer-down with a pan trigger (the middle button, space or control
\* held, or another pointer already down) sets the action to panning, whatever
\* the action and the tool were, and records the viewport's offset as the pan's
\* origin; neither dispatch runs: the collection and the tool are as before, no
\* id is drawn, no marquee, resize handle, drag offset, start position or rotation
\* centre is written, and the selection is as before (a drawing in progress is
\* dropped from it)
C15_PanTriggerEntersPan ==
    [][ \A id \in PointerIds, b \in Buttons, p \in Points :
          PanDown(id, b, p) =>
              /\ action' = "panning"
              /\ panStartRef'.offsetX = viewTransform.offsetX
              /\ panStartRef'.offsetY = viewTransform.offsetY
              /\ elements' = elements
              /\ selectedTool' = selectedTool
              /\ nextId' = nextId
              /\ selectedElements' =
                     IF action = "drawing" THEN << >> ELSE selectedElements
              /\ UNCHANGED <<selectionRect, resizeHandle, dragOffset, startPos,
                             rotationCenterRef, editingElement>> ]_vars

\* a second finger has come down while a handle of the selected element was held
C15_Witness ==
    /\ lastEvent.type = "pointerDown"
    /\ lastEvent.was \in {"resizing", "rotating", "curving"}
    /\ action = "panning"
    /\ Len(activePointers) = 2
    /\ selectedElements # << >>
    /\ panStartRef.offsetX = viewTransform.offsetX
    /\ panStartRef.offsetY = viewTransform.offsetY

\* the ids the program holds: those of the collection, of the selection and of
\* the element being edited
HeldIds ==
    Ids(elements) \cup Ids(selectedElements)
        \cup (IF editingElement # Null THEN {editingElement.id} ELSE {})

\* C16: a pan entered while the action is drawing empties the selection and leaves
\* the collection as it was, the element that was being drawn held nowhere; and
\* an id that has been handed out and is held nowhere is held nowhere after any
\* step, so that no later collection has an element of the discarded id
C16_PanDiscardsDrawing ==
    [][ /\ \A id \in PointerIds, b \in Buttons, p \in Points :
              (PanDown(id, b, p) /\ action = "drawing" /\ Len(selectedElements) > 0) =>
                  /\ action' = "panning"
                  /\ selectedElements' = << >>
                  /\ elements' = elements
                  /\ selectedElements[1].id < nextId'
                  /\ selectedElements[1].id \notin HeldIds'
        /\ \A d \in 1..(MaxId + 1) :
              (d < nextId /\ d \notin HeldIds) =>
                  (d < nextId' /\ d \notin HeldIds') ]_vars

\* a rectangle was being drawn when a second finger came down; the pan has ended
\* and the collection is the stored one
C16_Witness ==
    /\ lastEvent.type = "pointerUp"
    /\ lastEvent.was = "panning"
    /\ selectedTool = "rectangle"
    /\ nextId = Len(Stored) + 2
    /\ elements = Stored
    /\ selectedElements = << >>
    /\ activePointers # << >>

\* C17: a pointer-move while resizing by the start or the end handle of a line or
\* an arrow leaves the element with no control point and no curve-handle point,
\* the dragged endpoint moved by the pointer's delta since the last event of the
\* resize, and the other endpoint where it was
C17_EndpointResizeStraightens ==
    [][ \A id \in PointerIds, p \in Points :
          ( /\ lastEvent'.type = "pointerMove"
            /\ action = "resizing"
            /\ Len(selectedElements) > 0
            /\ IsLineType(selectedElements[1])
            /\ resizeHandle \in {"start", "end"}
            /\ handlePointerMove(id, p) ) =>
              \E el \in {selectedElements[1]}, resizedEl \in {selectedElements'[1]},
                 dx \in {getCanvasPos(p).x - startPos.x},
                 dy \in {getCanvasPos(p).y - startPos.y} :
                  /\ ~resizedEl.hasCp
                  /\ ~resizedEl.hasCurveHandle
                  /\ ~IsCurved(resizedEl)
                  /\ resizeHandle = "start" =>
                         /\ resizedEl.x = el.x + dx /\ resizedEl.y = el.y + dy
                         /\ resizedEl.x2 = el.x2 /\ resizedEl.y2 = el.y2
                  /\ resizeHandle = "end" =>
                         /\ resizedEl.x2 = el.x2 + dx /\ resizedEl.y2 = el.y2 + dy
                         /\ resizedEl.x = el.x /\ resizedEl.y = el.y ]_vars

\* the start of a curved arrow has been dragged away: the arrow in the selection
\* is straight, while the collection still holds the curve
C17_Witness ==
    /\ lastEvent.type = "pointerMove"
    /\ lastEvent.was = "resizing"
    /\ resizeHandle = "start"
    /\ Len(selectedElements) = 1
    /\ ~selectedElements[1].hasCp
    /\ ~selectedElements[1].hasCurveHandle
    /\ selectedElements[1].x # Stored[1].x
    /\ elements = Stored
    /\ Stored[1].hasCp
    /\ Stored[1].id = selectedElements[1].id

----------------------------------------------------------------------------
(* Path simplification on its own *)

\* the k-th smallest member of a set of indices
KthOf(S, k) == CHOOSE i \in S : Cardinality({j \in S : j <= i}) = k

\* the points at the indices S, in their order
Pick(points, S) == [k \in 1..Cardinality(S) |-> points[KthOf(S, k)]]

\* the sets of indices of the input a finished call may have kept
KeptBy(call) ==
    {S \in SUBSET (1..Len(call.points)) : Pick(call.points, S) = call.simplified}

Simplified == probe.fn = "simplifyPath" /\ probe.done

\* every index S leaves out lies between two neighbouring kept indices and its
\* point is at distance 0 from the line through their points
DropsOnlyOnChord(points, S) ==
    \A i \in (1..Len(points)) \ S :
        \E a, b \in S :
            /\ a < i /\ i < b
            /\ \A k \in S : ~(a < k /\ k < b)
            /\ perpendicularDistanceToLine(points[i], points[a], points[b]) = 0

\* C18: for every point sequence, sequences with interior points on the chord
\* and sequences with repeated points included, simplifyPath(points, 0)
\* returns the input sequence unchanged (the claim as stated)
C18_ZeroToleranceKeepsAll ==
    (Simplified /\ probe.epsilon = 0) => probe.simplified = probe.points

\* C18, amended: simplifyPath(points, 0) returns a sequence of fewer than three
\* points unchanged, and of a longer one it keeps, in order, the first point,
\* the last point and every point it does not drop, where a dropped point is
\* an interior point at distance 0 from the line through the kept points next
\* to it on either side (a point on that chord, or a repetition of its ends)
C18_ZeroToleranceDropsOnChord ==
    (Simplified /\ probe.epsilon = 0) =>
        /\ Len(probe.points) < 3 => probe.simplified = probe.points
        /\ \E S \in KeptBy(probe) :
              /\ Len(probe.points) > 0 => {1, Len(probe.points)} \subseteq S
              /\ DropsOnlyOnChord(probe.points, S)

\* a call with tolerance 0 that dropped a point on a chord and kept an
\* interior point off the chord of the whole path
C18_Witness ==
    /\ Simplified
    /\ probe.epsilon = 0
    /\ Len(probe.simplified) >= 3
    /\ Len(probe.simplified) < Len(probe.points)

\* C19: for every non-empty point sequence and every tolerance greater than 0,
\* simplifyPath returns a sequence that starts with the input's first point,
\* ends with the input's last point, is no longer than the input and is an
\* order-preserving subsequence of the input
C19_SimplifiedIsSubsequence ==
    (Simplified /\ probe.epsilon > 0 /\ Len(probe.points) > 0) =>
        /\ Len(probe.simplified) > 0
        /\ probe.simplified[1] = probe.points[1]
        /\ probe.simplified[Len(probe.simplified)] = probe.points[Len(probe.points)]
        /\ Len(probe.simplified) <= Len(probe.points)
        /\ KeptBy(probe) # {}

\* a call with a tolerance greater than 0 that split the path at an interior
\* point and dropped another
C19_Witness ==
    /\ Simplified
    /\ probe.epsilon > 0
    /\ Len(probe.simplified) >= 3
    /\ Len(probe.simplified) < Len(probe.points)

----------------------------------------------------------------------------
(* Hit testing on its own *)

Looked == probe.fn = "getElementAtPosition" /\ probe.done

\* C20: getElementAtPosition(elements, p) returns the element of the greatest
\* index among those whose shape test passes at p, and returns none exactly
\* when no element's shape test passes at p
C20_TopmostHitWins ==
    Looked =>
        \E hits \in {BodiesAt(probe.elements, probe.pos)} :
            /\ (probe.found = Null) <=> (hits = {})
            /\ hits # {} => probe.found = probe.elements[SetMax(hits)]

\* a call at a point where two elements of the collection pass, below an
\* element that does not
C20_Witness ==
    /\ Looked
    /\ Cardinality(BodiesAt(probe.elements, probe.pos)) >= 2
    /\ Len(probe.elements) \notin BodiesAt(probe.elements, probe.pos)
    /\ probe.found # Null

----------------------------------------------------------------------------
(* The marquee test on its own *)

Intersected == probe.fn = "isElementIntersectingRect" /\ probe.done

\* C21: for every element and every marquee over the same area,
\* isElementIntersectingRect returns the same result whichever of its four
\* corners the marquee was dragged from (any signs of width and height)
C21_MarqueeCornerFree ==
    Intersected => \A c, d \in Corners : probe.hits[c] = probe.hits[d]

\* a marquee with sides that partly covers a box drawn leftwards and upwards,
\* and intersects it from every corner
C21_Witness ==
    /\ Intersected
    /\ probe.area.width > 0
    /\ probe.area.height > 0
    /\ probe.element.type = "rectangle"
    /\ probe.element.width < 0
    /\ probe.area.x > probe.element.x + probe.element.width
    /\ \A c \in Corners : probe.hits[c]

----------------------------------------------------------------------------
(* Translation on its own *)

Moved == probe.fn = "moveElement" /\ probe.done

\* the point (px, py) of the element before is at (qx, qy) after
Shifted(px, py, qx, qy) == qx = px + probe.dx /\ qy = py + probe.dy

\* C22: for every element variant and every dx, dy, moveElement translates
\* every position-bearing field (the anchor, the second endpoint, the control
\* point, the curve handle, every pencil point) by (dx, dy), and moving the
\* result by (-dx, -dy) restores the element
C22_MoveTranslatesAll ==
    Moved =>
        \E el \in {probe.element}, to \in {probe.moved} :
            /\ Shifted(el.x, el.y, to.x, to.y)
            /\ IsLineType(el) => Shifted(el.x2, el.y2, to.x2, to.y2)
            /\ el.hasCp => to.hasCp /\ Shifted(el.cp1x, el.cp1y, to.cp1x, to.cp1y)
            /\ el.hasCurveHandle =>
                 /\ to.hasCurveHandle
                 /\ Shifted(el.curveHandleX, el.curveHandleY,
                            to.curveHandleX, to.curveHandleY)
            /\ Len(to.points) = Len(el.points)
            /\ \A i \in 1..Len(el.points) :
                 Shifted(el.points[i].x, el.points[i].y, to.points[i].x, to.points[i].y)
            /\ probe.back = el

\* a curved arrow with its control point at y = 0 has been moved on both axes
C22_Witness ==
    /\ Moved
    /\ probe.dx # 0
    /\ probe.dy # 0
    /\ probe.element.hasCp
    /\ probe.element.cp1y = 0
    /\ probe.moved.cp1y = probe.dy
    /\ probe.back = probe.element

----------------------------------------------------------------------------
(* The curve handle *)

\* the elements the editor holds: the collection, the selection and the element
\* being edited
HeldElements ==
    {elements[i] : i \in 1..Len(elements)}
        \cup {selectedElements[i] : i \in 1..Len(selectedElements)}
        \cup (IF editingElement # Null THEN {editingElement} ELSE {})

\* pointOnCurve(0.5, start, controlPoint, end) == curveHandle, both sides scaled
\* by CURVE_SAMPLES^2
HandleOnCurve(el) ==
    getPointOnQuadraticCurve(CURVE_SAMPLES \div 2, Pt(el.x, el.y),
                             Pt(el.cp1x, el.cp1y), Pt(el.x2, el.y2))
        = Pt(CURVE_SAMPLES * CURVE_SAMPLES * el.curveHandleX,
             CURVE_SAMPLES * CURVE_SAMPLES * el.curveHandleY)

\* C23: in every reachable state each line or arrow with a control point also
\* has a curve-handle point, and the point of its curve at t = 0.5 is that
\* curve handle
C23_HandleAtMidCurve ==
    \A el \in HeldElements :
        (IsLineType(el) /\ el.hasCp) => (el.hasCurveHandle /\ HandleOnCurve(el))

\* a curving gesture has been committed: the collection holds a line the gesture
\* curved, with its handle off the chord
C23_Witness ==
    /\ lastEvent.type = "pointerUp"
    /\ lastEvent.was = "curving"
    /\ \E i \in 1..Len(elements) :
         /\ elements[i].hasCp
         /\ elements[i] \notin {Stored[j] : j \in 1..Len(Stored)}
         /\ 2 * elements[i].curveHandleY # elements[i].y + elements[i].y2

----------------------------------------------------------------------------
(* Rectangle normalisation on its own *)

Normalized == probe.fn = "normalizeRect" /\ probe.done

\* the four corner points of a rectangle
CornerPoints(r) ==
    {Pt(r.x, r.y), Pt(r.x + r.width, r.y), Pt(r.x, r.y + r.height),
     Pt(r.x + r.width, r.y + r.height)}

\* C24: for every rectangle r, of any signs of width and height,
\* normalizeRect(r) has width >= 0 and height >= 0 and the same four corner
\* points as r, and normalizeRect(normalizeRect(r)) equals normalizeRect(r)
C24_NormalizeRect ==
    Normalized =>
        /\ probe.once.width >= 0
        /\ probe.once.height >= 0
        /\ CornerPoints(probe.once) = CornerPoints(probe.rect)
        /\ probe.twice = probe.once

\* a rectangle of negative width and negative height has been normalised
C24_Witness ==
    /\ Normalized
    /\ probe.rect.width < 0
    /\ probe.rect.height < 0
    /\ probe.once.x = probe.rect.x + probe.rect.width
    /\ probe.once.y = probe.rect.y + probe.rect.height

----------------------------------------------------------------------------
(* Handles of a box on their own *)

HandleTested ==
    probe.fn = "hitTestHandle" /\ probe.done /\ probe.element.type = "rectangle"

\* the point p is within half the hit size s of the point q
WithinHalf(p, q, s) == 2 * Abs(p.x - q.x) <= s /\ 2 * Abs(p.y - q.y) <= s

\* C25: for an unrotated rectangle, hitTestHandle at a point that is exactly a
\* corner of the box returns the handle type of a corner there (of that corner,
\* or of one within half the handle hit size of it), and returns none at a
\* point farther than half the handle hit size from every handle position
C25_CornerHandleHit ==
    HandleTested =>
        /\ \A c \in Corners :
             probe.pos = CornerOf(probe.element, c) =>
                /\ probe.handle \in Corners
                /\ WithinHalf(probe.pos, CornerOf(probe.element, probe.handle),
                              HANDLE_SIZE)
        /\ (\A i \in 1..Len(getHandles(probe.element)) :
              \E h \in {getHandles(probe.element)[i]} :
                  ~WithinHalf(Pt(2 * probe.pos.x, 2 * probe.pos.y), Pt(h.x, h.y),
                              2 * HandleHitSize(h)))
             => probe.handle = "null"

----------------------------------------------------------------------------
(* Editing and drawing *)

\* C26: in every reachable state, having an editing element is exclusive with
\* being mid-draw: whenever the editing element is not null the action is not
\* drawing
C26_EditingExcludesDrawing == editingElement # Null => action # "drawing"

----------------------------------------------------------------------------
(* Resizing a box by a corner handle *)

Resized == probe.fn = "resizeElement" /\ probe.done

\* where getHandles() puts the handle of the type t of the element
HandlePoint(el, t) ==
    CHOOSE pt \in {Pt(getHandles(el)[i].x \div 2, getHandles(el)[i].y \div 2) :
                      i \in {j \in 1..Len(getHandles(el)) : getHandles(el)[j].type = t}} :
        TRUE

\* the corner of the box el diagonally opposite its corner pt
Opposite(el, pt) ==
    LET n == normalizeRect(el)
    IN  Pt(2 * n.x + n.width - pt.x, 2 * n.y + n.height - pt.y)

\* C27: for every rectangle or diamond that drawing can leave, with negative
\* width or height too, dragging a corner handle from the corner where
\* getHandles locates it resizes the box so that the diagonally opposite corner
\* stays where it was and the dragged corner moves by the pointer's delta
C27_OppositeCornerFixed ==
    Resized =>
        \E at \in {HandlePoint(probe.element, probe.handle)} :
            at \in CornerPoints(probe.element) =>
                /\ Opposite(probe.element, at) \in CornerPoints(probe.resized)
                /\ Pt(at.x + probe.dx, at.y + probe.dy) \in CornerPoints(probe.resized)
                /\ Opposite(probe.resized, Pt(at.x + probe.dx, at.y + probe.dy))
                     = Opposite(probe.element, at)

----------------------------------------------------------------------------
(* The handles of a box *)

HandlesGot == probe.fn = "getHandles" /\ probe.done /\ IsBoxType(probe.element)

\* the handles returned that have the type t (positions doubled)
GotOfType(t) ==
    {probe.handles[i] : i \in {j \in 1..Len(probe.handles) : probe.handles[j].type = t}}

\* C28: for every rectangle or diamond, of any signs of width and height, the
\* four resize handles getHandles returns are exactly at the four corners of
\* the normalised box, each at the corner of its name, and the copy and the
\* rotation handle are horizontally centred above its top edge
C28_HandlesAtCorners ==
    HandlesGot =>
        \E n \in {normalizeRect(probe.element)} :
            /\ \A c \in Corners :
                 \E h \in GotOfType(c) :
                    /\ GotOfType(c) = {h}
                    /\ Pt(h.x, h.y) = Pt(2 * CornerOf(probe.element, c).x,
                                         2 * CornerOf(probe.element, c).y)
            /\ \A t \in {"copy", "rotation"} :
                 \E h \in GotOfType(t) :
                    /\ GotOfType(t) = {h}
                    /\ h.x = 2 * n.x + n.width
                    /\ h.y < 2 * n.y

----------------------------------------------------------------------------
(* Curved and straight lines *)

\* a finished call of fn on a line or arrow (for getElementAtPosition: on a
\* collection of that line alone)
OnLine(fn) ==
    /\ probe.fn = fn
    /\ probe.done
    /\ IF fn = "getElementAtPosition"
       THEN Len(probe.elements) = 1 /\ IsLineType(probe.elements[1])
       ELSE IsLineType(probe.element)

\* the centre of the bounding box of the curve of a line, and the midpoint of
\* its chord, both doubled
BoundsCentre(el) ==
    Pt((CurveBoundsOf(el).minX + CurveBoundsOf(el).maxX) \div 2,
       (CurveBoundsOf(el).minY + CurveBoundsOf(el).maxY) \div 2)
ChordCentre(el) == Pt(el.x + el.x2, el.y + el.y2)

\* C29: getElementCenter, getHandles and getElementAtPosition treat a line or
\* arrow as curved exactly when it has a control point, whatever its value (a
\* coordinate equal to 0 too), and as straight exactly when it has none: the
\* centre is that of the curve's bounds or of the chord, the copy handle is
\* above the top of the curve's bounds or above the chord's midpoint, the point
\* of the curve at t = 0.5 is hit or the chord's midpoint is
C29_CurvedIffControlPoint ==
    /\ OnLine("getElementCenter") =>
         probe.center = IF probe.element.hasCp THEN BoundsCentre(probe.element)
                        ELSE ChordCentre(probe.element)
    /\ OnLine("getHandles") =>
         \E i \in 1..Len(probe.handles) :
            /\ probe.handles[i].type = "copy"
            /\ probe.handles[i].x =
                 IF probe.element.hasCp THEN BoundsCentre(probe.element).x
                 ELSE ChordCentre(probe.element).x
            /\ probe.handles[i].y =
                 2 * COPY_HANDLE_OFFSET
                   + (IF probe.element.hasCp THEN CurveBoundsOf(probe.element).minY
                      ELSE ChordCentre(probe.element).y)
    /\ OnLine("getElementAtPosition") =>
         \E el \in {probe.elements[1]} :
            /\ (el.hasCp /\ probe.pos = Pt(el.curveHandleX, el.curveHandleY))
                 => probe.found = el
            /\ (~el.hasCp /\ Pt(2 * probe.pos.x, 2 * probe.pos.y) = ChordCentre(el))
                 => probe.found = el

----------------------------------------------------------------------------
(* Hit-testing in the element's rotated space *)

\* the element with its rotation removed
Unrotated(el) == [el EXCEPT !.hasRotation = FALSE, !.rotation = 0]

\* the world point pos rotated by minus the element's rotation about its
\* centre, doubled
RotatedBack(el, pos) ==
    rotatePoint(Pt(2 * pos.x, 2 * pos.y), getElementCenter(el), -el.rotation)

\* C30: for an element with rotation r about its centre and a world point p,
\* getElementAtPosition hits the element at p exactly when it hits the element
\* with its rotation removed at p rotated by -r about the centre (compared
\* where the rotated point is on the integer grid), pencil strokes and their
\* bounding-box pre-filter included
C30_HitInLocalSpace ==
    (Looked /\ Len(probe.elements) = 1) =>
        \E el \in {probe.elements[1]} :
            \E q \in {RotatedBack(el, probe.pos)} :
                (q.x % 2 = 0 /\ q.y % 2 = 0) =>
                    (probe.found # Null
                       <=> getElementAtPosition(<< Unrotated(el) >>,
                                                Pt(q.x \div 2, q.y \div 2)) # Null)

----------------------------------------------------------------------------
(* A click on empty space *)

\* C31: with the selection tool, a pointer-down where no handle and no element
\* body is hit (the press that starts a marquee), followed by the pointer-up
\* with no event in between, leaves the selection empty
C31_EmptyClickDeselects ==
    [][ ( /\ lastEvent.type = "pointerDown"
          /\ action = "multi-selecting"
          /\ selectedTool = "selection"
          /\ lastEvent'.type = "pointerUp" ) => selectedElements' = << >> ]_vars

----------------------------------------------------------------------------
(* The selection at rest *)

\* C32: in every state where the action is none, every selected element is
\* equal in value to an element of the collection (the one with its id): no
\* uncommitted change outlives an interaction, one that a pan interrupted
\* included
C32_SelectionCommittedAtRest ==
    action = "none" =>
        \A i \in 1..Len(selectedElements) :
            \E j \in 1..Len(elements) : elements[j] = selectedElements[i]

----------------------------------------------------------------------------
(* Removed elements *)

\* C33: an element removed from the collection by a delete command or by
\* clear-all is never inserted again: in every later state no element of the
\* collection carries a removed id
C33_RemovedStaysRemoved ==
    Ids(elements) \cap lastEvent.gone = {}

----------------------------------------------------------------------------
(* The marquee rectangle *)

\* C34: in every state the marquee rectangle is there only while the action is
\* multi-selecting; whenever the action is another one, after a pointer-up in
\* particular, there is no marquee
C34_MarqueeOnlyWhileSelecting ==
    selectionRect # Null => action = "multi-selecting"

----------------------------------------------------------------------------
(* Moves of a pan *)

\* the reference point of a pointer event at p once the pointers are m, doubled:
\* the midpoint of the first two pointers when more than one is down, else p
ReferencePoint(m, p) ==
    IF Len(m) > 1 THEN Pt(m[1].p.x + m[2].p.x, m[1].p.y + m[2].p.y)
    ELSE Pt(2 * p.x, 2 * p.y)

\* C35: every pointer-move while panning sets the viewport's offset to the
\* offset recorded at the start of the pan plus the way from the reference
\* point recorded there to the current one, in screen space (compared doubled);
\* it leaves the scale, the collection, the selection and the action as they were
C35_PanMoveFollowsReference ==
    [][ \A id \in PointerIds, p \in Points :
          (action = "panning" /\ handlePointerMove(id, p)) =>
              /\ 2 * viewTransform'.offsetX =
                     2 * panStartRef.offsetX
                       + ReferencePoint(activePointers', p).x - panStartRef.point.x
              /\ 2 * viewTransform'.offsetY =
                     2 * panStartRef.offsetY
                       + ReferencePoint(activePointers', p).y - panStartRef.point.y
              /\ viewTransform'.scale = viewTransform.scale
              /\ UNCHANGED <<elements, selectedElements, action>> ]_vars

\* a move of one of two fingers has panned the view along x
C35_Witness ==
    /\ lastEvent.type = "pointerMove"
    /\ lastEvent.was = "panning"
    /\ action = "panning"
    /\ Len(activePointers) = 2
    /\ viewTransform.offsetX # panStartRef.offsetX

----------------------------------------------------------------------------
(* Moves of a rotation *)

\* the rotation of an element, 0 when it has none (el.rotation || 0)
RotationOf(el) == IF el.hasRotation THEN el.rotation ELSE 0

\* the direction of the world point pos as seen from the doubled centre, in degrees
DirectionFrom(center, pos) ==
    Atan2Deg(2 * pos.y - center.y, 2 * pos.x - center.x)

\* C36: the press on the rotation handle records the element's rotation, the
\* press position and the centre; every pointer-move while rotating sets the
\* rotation to the recorded one plus the angle between the recorded and the
\* current position as seen from the recorded centre, whatever the moves
\* before; so a move back to the press position gives the recorded rotation;
\* and it changes no field of the element but the rotation
C36_RotationFromPress ==
    [][ /\ (lastEvent'.type = "pointerDown" /\ action' = "rotating") =>
              /\ initialRotationRef' = RotationOf(selectedElements[1])
              /\ rotationCenterRef' = getElementCenter(selectedElements[1])
              /\ startPos' = PointerPos'
        /\ \A id \in PointerIds, p \in Points :
              ( /\ action = "rotating"
                /\ Len(selectedElements) > 0
                /\ handlePointerMove(id, p) ) =>
                  /\ Len(selectedElements') = 1
                  /\ RotationOf(selectedElements'[1]) =
                         initialRotationRef
                           + DirectionFrom(rotationCenterRef, getCanvasPos(p))
                           - DirectionFrom(rotationCenterRef, startPos)
                  /\ getCanvasPos(p) = startPos =>
                         RotationOf(selectedElements'[1]) = initialRotationRef
                  /\ Unrotated(selectedElements'[1]) = Unrotated(selectedElements[1])
                  /\ UNCHANGED <<initialRotationRef, rotationCenterRef, startPos>>
      ]_vars

\* the pointer is back where it pressed the rotation handle, and the element,
\* rotated by the moves, has the rotation it had at the press
C36_Witness ==
    /\ action = "rotating"
    /\ lastEvent.type = "pointerMove"
    /\ lastEvent.was = "rotating"
    /\ Len(selectedElements) = 1
    /\ PointerPos = startPos
    /\ selectedElements[1].hasRotation
    /\ selectedElements[1].rotation = initialRotationRef

----------------------------------------------------------------------------
(* Moves of a resize *)

\* C37: while resizing, whenever the last pointer-move has come back to the
\* position the handle was pressed at, the element is the element at the press
\* (the one the collection still holds), whatever the moves in between, for
\* every variant and handle
C37_ResizeByNetDisplacement ==
    ( /\ action = "resizing"
      /\ lastEvent.type = "pointerMove"
      /\ Len(selectedElements) > 0
      /\ startPos = lastEvent.press ) =>
        \E j \in 1..Len(elements) : elements[j] = selectedElements[1]

(***************************************************************************)
(* C38: in every reachable state every circle of the collection and of     *)
(* the selection has a radius of at least 0, whatever was drawn and        *)
(* whatever deltas the radius handle was dragged by.                       *)
(***************************************************************************)
C38_RadiusNonNegative ==
    /\ \A j \in 1..Len(elements) :
            elements[j].type = "circle" => elements[j].radius >= 0
    /\ \A j \in 1..Len(selectedElements) :
            selectedElements[j].type = "circle" => selectedElements[j].radius >= 0

\* the radius handle was dragged inwards by more than the radius, and the
\* circle in the selection has radius 0
C38_Witness ==
    /\ action = "resizing"
    /\ resizeHandle = "radius"
    /\ lastEvent.type = "pointerMove"
    /\ Len(selectedElements) > 0
    /\ selectedElements[1].type = "circle"
    /\ selectedElements[1].radius = 0
    /\ \E j \in 1..Len(elements) :
            /\ elements[j].id = selectedElements[1].id
            /\ elements[j].radius + (startPos.x - lastEvent.press.x) < 0

(***************************************************************************)
(* C39: simplifyPath is idempotent for a fixed tolerance: simplifying the  *)
(* result of simplifyPath(points, epsilon) again with the same epsilon     *)
(* returns it unchanged; hence a committed pencil stroke that is dragged   *)
(* by any offset and committed again (its translated points simplified     *)
(* with tolerance 1) keeps its number of points.                           *)
(***************************************************************************)
C39_SimplifyIdempotent ==
    Simplified =>
        /\ simplifyPath(probe.simplified, probe.epsilon) = probe.simplified
        /\ (probe.epsilon = PENCIL_EPSILON /\ Len(probe.simplified) > 0) =>
              \A dx \in -MaxShift..MaxShift, dy \in -MaxShift..MaxShift :
                  Len(FinalElement(moveElement(PencilEl(1, probe.simplified),
                                               dx, dy)).points)
                      = Len(probe.simplified)

\* a simplification with the commit's tolerance that dropped a point and kept
\* an interior one: the second pass has a chord to split again
C39_Witness ==
    /\ Simplified
    /\ probe.epsilon = PENCIL_EPSILON
    /\ Len(probe.points) = 4
    /\ Len(probe.simplified) = 3

(***************************************************************************)
(* The render pass: useDrawing.ts, the layout effect                       *)
(***************************************************************************)

\* the elements drawn on the static (bottom) canvas, in drawing order: those
\* whose id is neither a selected element's nor the editing element's
StaticLayer ==
    LET selectedIds == Ids(selectedElements)
                         \cup (IF editingElement # Null THEN {editingElement.id} ELSE {})
    IN  SelectSeq(elements, LAMBDA el : el.id \notin selectedIds)

\* the elements drawn highlighted on the active (top) canvas, in drawing order
ActiveLayer == selectedElements

\* the number of times an element with the given id is drawn on a layer
DrawnOn(layer, id) == Cardinality({i \in 1..Len(layer) : layer[i].id = id})

(***************************************************************************)
(* C40: in every render pass each element of the collection is drawn on   *)
(* exactly one of the two layers: on the static layer if it is not         *)
(* selected, on the active layer if it is; no element of the collection is *)
(* left undrawn in any reachable state, an editing element included.       *)
(***************************************************************************)
C40_DrawnOnExactlyOneLayer ==
    \A j \in 1..Len(elements) :
        LET id == elements[j].id
        IN  /\ DrawnOn(StaticLayer, id) + DrawnOn(ActiveLayer, id) >= 1
            /\ id \in Ids(selectedElements) =>
                    DrawnOn(StaticLayer, id) = 0 /\ DrawnOn(ActiveLayer, id) = 1
            /\ id \notin Ids(selectedElements) =>
                    DrawnOn(ActiveLayer, id) = 0
                      /\ DrawnOn(StaticLayer, id)
                           = DrawnOn(elements, id)

====
